---- MODULE Spec2Model ----
(***************************************************************************)
(* Frame pipeline and GPU resource lifecycle of VulkanTextureDepth.        *)
(*                                                                         *)
(* The control thread (VulkanApplication::run / drawFrame /                *)
(* recreateSwapChain / destroyResources) is modelled step by step with a   *)
(* program counter; the GPU queues and the window system run               *)
(* asynchronously as separate actions.  Vulkan handles are triples         *)
(* <<kind, generation, index>>; `alive` is the set of handles that have    *)
(* been created and not yet destroyed on the device.                       *)
(***************************************************************************)
EXTENDS Naturals, Integers, Sequences, FiniteSets, TLC

\* graphics.hpp:32  static constexpr uint32_t MAX_FRAMES_IN_FLIGHT = 2;
MaxLen == 3          \* longest list passed to a selection function
UintBits == 4        \* width of the model's uint32_t
MAX_FRAMES_IN_FLIGHT == 2

\* Bounds of the model (not program constants).
MaxFrames == 3         \* frame cycles that reach vkQueuePresentKHR
MaxCalls == 4          \* calls a client makes on a stand-alone object
MaxReloads == 1        \* reloadTexture calls made while the run loop runs

VARIABLES
    pc,                 \* position of the control thread
    retPc,              \* where the running recreateSwapChain() returns to
    rcIdx,              \* next statement of recreateSwapChain's body
    rcSizeZero,         \* recreateSwapChain's locals: width == 0 || height == 0
    tdIdx,              \* next statement of destroyResources
    currentFrame,       \* VulkanApplication::currentFrame
    framebufferResized, \* VulkanApplication::framebufferResized
    imageIndex,         \* drawFrame's local imageIndex (0 outside its scope)
    swapChain,          \* SwapChain::swapChain
    swapChainImages,    \* SwapChain::swapChainImages (its size)
    swapChainImageViews,\* SwapChain::swapChainImageViews
    framebuffers,       \* GraphicsPipeline::framebuffers
    commandBuffers,     \* CommandBufferManager::commandBuffers
    cbContent,          \* what each slot's command buffer has recorded
    alive,              \* device: handles created and not destroyed
    attach,             \* device: <<framebuffer, image view>> attachments
    fenceSignaled,      \* device: state of inFlightFences[i]
    semSignaled,        \* device: state of the semaphores
    inFlight,           \* graphics queue: submissions not yet completed
    presentQ,           \* present queue: present requests not yet executed
    imgState,           \* presentation engine: state of each swap image
    surfaceStale,       \* the chain no longer matches the surface
    events,             \* window-system events not yet delivered
    shouldClose,        \* glfwWindowShouldClose
    windowZero,         \* the window's framebuffer has a zero width or height
    frames,             \* cycles whose vkQueuePresentKHR returned
    cycle,              \* observations of the current drawFrame() call
    rcLog,              \* statements executed by the current recreateSwapChain()
    destroyLog,         \* components destroyed by destroyResources, in order
    texture,            \* TextureManager's members
    descriptorSets,     \* DescriptorManager::descriptorSets and what each set binds
    poolSets,           \* device: sets allocated from the descriptor pool
    tpc,                \* position of a running manager call of the client
    mlog,               \* create / destroy calls made by the managers, in order
    ncalls,             \* manager calls the client has made
    bufferManager,      \* BufferManager's members
    bufferData,         \* device: the bytes each live VkBuffer holds
    staging,            \* stagingBuffer local of the running upload
    copyQ,              \* copy command submitted to the queue and not yet executed
    upc,                \* position of the constructors that upload
    uplog,              \* results of the upload steps, in order
    samplerManager,     \* SamplerManager: the samplers map, and whether it is destroyed
    call                \* the last call of a selection function, constructor or
                        \* accessor a client made: function, arguments, outcome

ctlVars == <<pc, retPc, rcIdx, rcSizeZero, tdIdx>>
appVars == <<currentFrame, framebufferResized, imageIndex>>
scVars  == <<swapChain, swapChainImages, swapChainImageViews>>
objVars == <<framebuffers, commandBuffers, cbContent>>
devVars == <<alive, attach>>
gpuVars == <<fenceSignaled, semSignaled, inFlight, presentQ, imgState>>
envVars == <<surfaceStale, events, shouldClose, windowZero>>
obsVars == <<frames, cycle, rcLog, destroyLog>>
upVars == <<bufferManager, bufferData, staging, copyQ, upc, uplog>>
mgrVars == <<texture, descriptorSets, poolSets, tpc, mlog, ncalls, upVars, samplerManager, call>>
vars == <<ctlVars, appVars, scVars, objVars, devVars, gpuVars, envVars, obsVars, mgrVars>>

Slots == 0 .. (MAX_FRAMES_IN_FLIGHT - 1)
\* Swap image counts the surface may hand out for a chain.
ImageCounts == {2, 3}

H(k, g, i) == <<k, g, i>>
NullHandle == <<>>
Range(s) == {s[i] : i \in 1 .. Len(s)}

(***************************************************************************)
(* Handles owned by each component of VulkanApplication.                   *)
(***************************************************************************)
ImageAvailable(s) == H("imageAvailable", 0, s)
RenderFinished(s) == H("renderFinished", 0, s)
InFlightFence(s)  == H("inFlightFence", 0, s)
CommandPool       == H("commandPool", 0, 0)
Sampler           == H("sampler", 0, 0)
TextureImage      == H("textureImage", 0, 0)
TextureImageView  == H("textureImageView", 0, 0)
VertexBuffer      == H("vertexBuffer", 0, 0)
IndexBuffer       == H("indexBuffer", 0, 0)
UniformBuffer(s)  == H("uniformBuffer", 0, s)
DescriptorSetLayout == H("descriptorSetLayout", 0, 0)
DescriptorPool    == H("descriptorPool", 0, 0)
Pipeline          == H("graphicsPipeline", 0, 0)
PipelineLayout    == H("pipelineLayout", 0, 0)
RenderPass        == H("renderPass", 0, 0)
Allocator         == H("allocator", 0, 0)
Device            == H("device", 0, 0)
PhysicalDevice    == H("physicalDevice", 0, 0)
Surface           == H("surface", 0, 0)
Instance          == H("instance", 0, 0)

SyncObjects ==
    {ImageAvailable(s) : s \in Slots} \cup {RenderFinished(s) : s \in Slots}
        \cup {InFlightFence(s) : s \in Slots}

\* What the destructor of each unique_ptr member destroys.
ComponentHandles(c) ==
    CASE c = "commandBufferManager" -> Range(commandBuffers) \cup SyncObjects \cup {CommandPool}
      [] c = "samplerManager"       -> {samplerManager.samplers[k] :
                                           k \in DOMAIN samplerManager.samplers}
      [] c = "textureManager"       -> {texture.textureImageView, texture.textureImage}
                                           \ {NullHandle}
      [] c = "bufferManager"        -> {UniformBuffer(s) : s \in Slots} \cup {VertexBuffer, IndexBuffer}
      [] c = "descriptorManager"    -> {DescriptorSetLayout, DescriptorPool}
      [] c = "graphicsPipeline"     -> Range(framebuffers) \cup {Pipeline, PipelineLayout, RenderPass}
      [] c = "allocatorManager"     -> {Allocator}
      [] c = "swapChain"            -> Range(swapChainImageViews) \cup {swapChain}
      [] c = "vulkanLogicalDevice"  -> {Device}
      [] c = "vulkanPhysicalDevice" -> {PhysicalDevice}
      [] c = "vulkanInstanceCreator" -> {Surface, Instance}

\* Fault seed: the buffers are released after the pipeline instead of before
\* the descriptors.
TeardownOrder_BuffersAfterPipeline ==
    << "commandBufferManager", "samplerManager", "textureManager",
       "descriptorManager", "graphicsPipeline", "bufferManager", "allocatorManager",
       "swapChain", "vulkanLogicalDevice", "vulkanPhysicalDevice",
       "vulkanInstanceCreator" >>

\* VulkanApplication::destroyResources: the order of the reset() calls.
TeardownOrder ==
    << "commandBufferManager", "samplerManager", "textureManager", "bufferManager",
       "descriptorManager", "graphicsPipeline", "allocatorManager", "swapChain",
       "vulkanLogicalDevice", "vulkanPhysicalDevice", "vulkanInstanceCreator" >>

Components == Range(TeardownOrder)

(***************************************************************************)
(* SwapChain: createSwapChain + createImageViews, cleanupSwapChain.        *)
(***************************************************************************)
\* Handles are opaque: a create call returns a handle that differs from every
\* handle the program or the device still holds.  FreshGen is the smallest
\* generation number no such handle carries.
HeldHandles ==
    alive \cup Range(swapChainImageViews) \cup {swapChain} \cup Range(framebuffers)
          \cup Range(commandBuffers) \cup UNION {f.refs : f \in inFlight}
          \cup {p.chain : p \in presentQ}
          \cup {texture.textureImage, texture.textureImageView}
          \cup {descriptorSets[i].imageView : i \in DOMAIN descriptorSets}
FreshGen ==
    LET used == {h[2] : h \in HeldHandles \ {NullHandle}}
    IN  CHOOSE g \in 0 .. Cardinality(used) : g \notin used

NewChain(g) == H("swapChain", g, 0)
NewViews(g, n) == [i \in 1 .. n |-> H("imageView", g, i - 1)]

\* SwapChain::cleanupSwapChain: destroy every image view, then the chain.
\* The members keep their (now dangling) values.
CleanupSwapChain(al) == al \ (Range(swapChainImageViews) \cup {swapChain})

\* Fault seed: a framebuffer for each frame slot instead of each view.
NewFramebuffers_PerSlot(g, views) ==
    [i \in 1 .. MAX_FRAMES_IN_FLIGHT |-> H("framebuffer", g, i - 1)]

\* GraphicsPipeline::createFrameBuffers(views, extent): one framebuffer per view.
NewFramebuffers(g, views) == [i \in 1 .. Len(views) |-> H("framebuffer", g, i - 1)]
NewAttach(g, views) == {<<H("framebuffer", g, i - 1), views[i]>> : i \in 1 .. Len(views)}

\* CommandBufferManager::createCommandBuffers: MAX_FRAMES_IN_FLIGHT buffers.
NewCommandBuffers(g) == [i \in 1 .. MAX_FRAMES_IN_FLIGHT |-> H("commandBuffer", g, i - 1)]

\* Observations of one drawFrame() call: whether vkAcquireNextImageKHR reported
\* out-of-date, whether vkQueuePresentKHR returned out-of-date or suboptimal or
\* with the resize flag set, what the call did, and the slot it started on;
\* `recreated` counts the recreateSwapChain() calls of drawFrame, and during the
\* call run() makes after it `before` holds that count.
NoCycle ==
    [staleAcquire |-> FALSE, stalePresent |-> FALSE, recorded |-> FALSE,
     submitted |-> FALSE, presented |-> FALSE, recreated |-> 0, slot |-> 0,
     acqSem |-> <<>>, error |-> "none", before |-> 0]

(***************************************************************************)
(* TextureManager and DescriptorManager.                                   *)
(***************************************************************************)
ImagePaths == {"a.png", "b.png"}

\* TextureManager::createTextureImageView: the view of an image; the image a
\* view was created from.
NewTextureView(img) == H("textureImageView", img[2], 0)
ImageOf(view) == H("textureImage", view[2], 0)

\* DescriptorManager::createDescriptorSets: set i binds uniformBuffers[i] at
\* binding 0 and the given view and sampler at binding 1.
WrittenSets(view, sampler) ==
    [i \in 1 .. MAX_FRAMES_IN_FLIGHT |->
        [buffer |-> UniformBuffer(i - 1), imageView |-> view, sampler |-> sampler]]

(***************************************************************************)
(* BufferManager and the one-shot uploads.                                 *)
(***************************************************************************)
\* Byte payloads a client passes as vertices / indices.
Payloads == {<<1>>, <<1, 2>>, <<2, 1>>}
\* A byte of a buffer nothing has written yet.
Undefined == 0 - 1
\* AllocatorManager::createBuffer(size, ...): a buffer of size bytes.
Blank(size) == [i \in 1 .. size |-> Undefined]
\* VkBuffer stagingBuffer of the upload named op.
StagingBuffer(op) ==
    H("stagingBuffer", 0, CASE op = "createTextureImage" -> 0
                            [] op = "createVertexBuffer" -> 1
                            [] op = "createIndexBuffer" -> 2)
\* A VkBuffer member without initializer, before anything is stored in it.
Indeterminate == H("indeterminate", 0, 0)
\* Positions of the constructors: inside the call of op at a step (and, in
\* createUniformBuffers, at iteration i), returned normally, or left by an
\* exception.
At(op, step) == <<op, step, 0>>
Constructed == At("constructed", "")
Threw == At("threw", "")
NullBuffers == [i \in 1 .. MAX_FRAMES_IN_FLIGHT |-> NullHandle]
IsHandle(h) == h # NullHandle

\* BufferManager after a constructor in which every step succeeded.
InitUploaded(v, x) ==
    /\ bufferManager = [vertices |-> v, indices |-> x,
                        vertexBuffer |-> VertexBuffer, indexBuffer |-> IndexBuffer,
                        uniformBuffers |-> [i \in 1 .. MAX_FRAMES_IN_FLIGHT |-> UniformBuffer(i - 1)],
                        uniformBuffersMapped |-> [i \in 1 .. MAX_FRAMES_IN_FLIGHT |-> TRUE]]
    /\ bufferData = (VertexBuffer :> v) @@ (IndexBuffer :> x)
                       @@ [h \in {UniformBuffer(s) : s \in Slots} |-> <<Undefined>>]
    /\ staging = NullHandle
    /\ copyQ = NullHandle
    /\ upc = Constructed
    /\ uplog = <<>>

\* No call of a selection function, constructor or accessor has been made.
NoCall == [fn |-> "none", args |-> <<>>, result |-> <<>>]

\* The managers as VulkanApplication's constructor leaves them.
InitManagers ==
    /\ InitUploaded(<<1>>, <<1>>)
    /\ call = NoCall
    /\ samplerManager = [samplers |-> ("default" :> Sampler), destroyed |-> FALSE]
    /\ texture = [textureImage |-> TextureImage, textureImageView |-> TextureImageView,
                  textureSampler |-> Sampler, textureMutex |-> "free",
                  imagePath |-> "a.png", pixels |-> "a.png",
                  layout |-> "SHADER_READ_ONLY"]
    /\ descriptorSets = WrittenSets(TextureImageView, Sampler)
    /\ poolSets = MAX_FRAMES_IN_FLIGHT
    /\ tpc = "idle"
    /\ mlog = <<>>
    /\ ncalls = 0

(***************************************************************************)
(* State after VulkanApplication's constructor.                            *)
(***************************************************************************)
\* Fault seed: the fences are created without VK_FENCE_CREATE_SIGNALED_BIT.
createFence_Unsignaled(i) == FALSE

\* createSyncObjects' createFence: fenceInfo.flags = VK_FENCE_CREATE_SIGNALED_BIT,
\* the state of inFlightFences[i] after construction.
createFence(i) == TRUE


InitDevice(n) ==
    /\ swapChain = NewChain(0)
    /\ swapChainImages = n
    /\ swapChainImageViews = NewViews(0, n)
    /\ framebuffers = NewFramebuffers(0, NewViews(0, n))
    /\ attach = NewAttach(0, NewViews(0, n))
    /\ commandBuffers = NewCommandBuffers(0)
    /\ cbContent = [s \in Slots |-> <<>>]
    /\ alive = UNION {ComponentHandles(c) : c \in Components}
    /\ fenceSignaled = [s \in Slots |-> createFence(s)]
    /\ semSignaled = [h \in {ImageAvailable(s) : s \in Slots}
                            \cup {RenderFinished(s) : s \in Slots} |-> FALSE]
    /\ inFlight = {}
    /\ presentQ = {}
    /\ imgState = [i \in 0 .. (n - 1) |-> "free"]

Init ==
    /\ InitManagers
    /\ pc = "loop"
    /\ retPc = "none"
    /\ rcIdx = 0
    /\ rcSizeZero = FALSE
    /\ tdIdx = 1
    /\ currentFrame = 0
    /\ framebufferResized = FALSE
    /\ imageIndex = 0
    /\ \E n \in ImageCounts : InitDevice(n)
    /\ surfaceStale = FALSE
    /\ events = {}
    /\ shouldClose = FALSE
    /\ windowZero = FALSE
    /\ frames = 0
    /\ cycle = NoCycle
    /\ rcLog = <<>>
    /\ destroyLog = <<>>

(***************************************************************************)
(* Window system (GLFW).  Events are queued until glfwPollEvents or        *)
(* glfwWaitEvents delivers them to the callbacks.                          *)
(***************************************************************************)
\* The window exists until run() has returned (main then destroys it).
WindowOpen == pc \notin {"returned", "threw", "destroyResources", "destroyed", "client"}

WindowResize ==
    /\ WindowOpen /\ ~windowZero
    /\ surfaceStale' = TRUE
    /\ events' = events \cup {"resize"}
    /\ UNCHANGED <<shouldClose, windowZero>>
    /\ UNCHANGED <<ctlVars, appVars, scVars, objVars, devVars, gpuVars, obsVars>>
    /\ UNCHANGED mgrVars

WindowMinimize ==
    /\ WindowOpen /\ ~windowZero
    /\ windowZero' = TRUE
    /\ surfaceStale' = TRUE
    /\ events' = events \cup {"resize"}
    /\ UNCHANGED shouldClose
    /\ UNCHANGED <<ctlVars, appVars, scVars, objVars, devVars, gpuVars, obsVars>>
    /\ UNCHANGED mgrVars

WindowRestore ==
    /\ WindowOpen /\ windowZero
    /\ windowZero' = FALSE
    /\ surfaceStale' = TRUE
    /\ events' = events \cup {"resize"}
    /\ UNCHANGED shouldClose
    /\ UNCHANGED <<ctlVars, appVars, scVars, objVars, devVars, gpuVars, obsVars>>
    /\ UNCHANGED mgrVars

CloseRequest ==
    /\ WindowOpen /\ ~shouldClose /\ "close" \notin events
    /\ events' = events \cup {"close"}
    /\ UNCHANGED <<surfaceStale, shouldClose, windowZero>>
    /\ UNCHANGED <<ctlVars, appVars, scVars, objVars, devVars, gpuVars, obsVars>>
    /\ UNCHANGED mgrVars

\* glfwPollEvents / glfwWaitEvents run the callbacks of the queued events:
\* framebufferResizeCallback sets framebufferResized, a close event sets the
\* window's close flag.
DeliverEvents ==
    /\ framebufferResized' = (framebufferResized \/ "resize" \in events)
    /\ shouldClose' = (shouldClose \/ "close" \in events)
    /\ events' = {}

(***************************************************************************)
(* GPU queues.                                                             *)
(***************************************************************************)
\* Fault seed: vkDeviceWaitIdle returns without waiting.
DeviceIdle_NoWait == TRUE

\* vkDeviceWaitIdle returns once every queue of the device is idle.
DeviceIdle == inFlight = {} /\ presentQ = {}

\* Queue operations of one queue are processed in submission order.
Oldest(q) == CHOOSE x \in q : \A y \in q : x.id <= y.id

\* The graphics queue executes a submission once its wait semaphore is
\* signaled; completion signals its signal semaphore and its fence.
GpuComplete ==
    \E f \in inFlight :
        /\ f = Oldest(inFlight)
        /\ semSignaled[f.wait]
        /\ semSignaled' = [semSignaled EXCEPT ![f.wait] = FALSE, ![f.signal] = TRUE]
        /\ fenceSignaled' = [fenceSignaled EXCEPT ![f.fence[3]] = TRUE]
        /\ inFlight' = inFlight \ {f}
        /\ UNCHANGED <<presentQ, imgState>>
        /\ UNCHANGED <<ctlVars, appVars, scVars, objVars, devVars, envVars, obsVars>>
    /\ UNCHANGED mgrVars

\* The present queue executes a present request once its wait semaphore is
\* signaled; the image goes back to the presentation engine.
PresentComplete ==
    \E p \in presentQ :
        /\ p = Oldest(presentQ)
        /\ semSignaled[p.wait]
        /\ semSignaled' = [semSignaled EXCEPT ![p.wait] = FALSE]
        /\ imgState' = IF p.chain = swapChain /\ p.chain \in alive
                       THEN [imgState EXCEPT ![p.image] = "free"]
                       ELSE imgState
        /\ presentQ' = presentQ \ {p}
        /\ UNCHANGED <<fenceSignaled, inFlight>>
        /\ UNCHANGED <<ctlVars, appVars, scVars, objVars, devVars, envVars, obsVars>>
    /\ UNCHANGED mgrVars

(***************************************************************************)
(* VulkanApplication::run and drawFrame.                                   *)
(***************************************************************************)
\* while (!glfwWindowShouldClose(windowInstance))
RunLoop ==
    /\ pc = "loop"
    /\ pc' = IF shouldClose THEN "exitWaitIdle" ELSE "poll"
    /\ UNCHANGED <<retPc, rcIdx, rcSizeZero, tdIdx>>
    /\ UNCHANGED <<appVars, scVars, objVars, devVars, gpuVars, envVars, obsVars>>
    /\ UNCHANGED mgrVars

\* glfwPollEvents(); then drawFrame() is entered with frameIndex = currentFrame.
PollEvents ==
    /\ pc = "poll" /\ frames < MaxFrames
    /\ DeliverEvents
    /\ pc' = "waitFence"
    /\ cycle' = [NoCycle EXCEPT !.slot = currentFrame]
    /\ UNCHANGED <<retPc, rcIdx, rcSizeZero, tdIdx, currentFrame, imageIndex>>
    /\ UNCHANGED <<surfaceStale, windowZero, frames, rcLog, destroyLog>>
    /\ UNCHANGED <<scVars, objVars, devVars, gpuVars>>
    /\ UNCHANGED mgrVars

\* Fault seed: vkWaitForFences returns without waiting.
FenceWaitDone_NoWait(s) == TRUE

\* vkWaitForFences(inFlightFences[frameIndex], UINT64_MAX) has returned.
FenceWaitDone(s) == fenceSignaled[s]

WaitForFences ==
    /\ pc = "waitFence"
    /\ FenceWaitDone(currentFrame)
    /\ pc' = "resetFence"
    /\ UNCHANGED <<retPc, rcIdx, rcSizeZero, tdIdx>>
    /\ UNCHANGED <<appVars, scVars, objVars, devVars, gpuVars, envVars, obsVars>>
    /\ UNCHANGED mgrVars

ResetFences ==
    /\ pc = "resetFence"
    /\ fenceSignaled' = [fenceSignaled EXCEPT ![currentFrame] = FALSE]
    /\ pc' = "acquire"
    /\ UNCHANGED <<retPc, rcIdx, rcSizeZero, tdIdx>>
    /\ UNCHANGED <<semSignaled, inFlight, presentQ, imgState>>
    /\ UNCHANGED <<appVars, scVars, objVars, devVars, envVars, obsVars>>
    /\ UNCHANGED mgrVars

\* Fault seed: the present request waits on the acquire semaphore.
PresentWait_ImageAvailable(s) == ImageAvailable(s)

\* The synchronisation objects drawFrame passes for slot s.
AcquireSemaphore(s) == ImageAvailable(s)
SubmitWait(s)   == ImageAvailable(s)
SubmitSignal(s) == RenderFinished(s)
SubmitFence(s)  == InFlightFence(s)
PresentWait(s)  == RenderFinished(s)

ReportsStale(r) == r \in {"OUT_OF_DATE", "SUBOPTIMAL"}

\* Results the presentation engine may report besides VK_SUCCESS.
StaleResults == IF surfaceStale THEN {"SUBOPTIMAL", "OUT_OF_DATE"} ELSE {}

\* Entering VulkanApplication::recreateSwapChain, to return to `ret`.
EnterRecreate(ret) ==
    /\ pc' = "rc_getSize"
    /\ retPc' = ret
    /\ rcIdx' = 1
    /\ rcLog' = <<>>
    /\ UNCHANGED <<rcSizeZero, tdIdx>>

\* Fault seed: the `return` after the recreation is missing.
AcquireStaleReturn_FallThrough == "updateUniform"

\* drawFrame's `return` after a stale acquire leads back into run().
AcquireStaleReturn == "afterDraw"
\* after the recreation of a stale present drawFrame goes on to advance the slot.
PresentStaleReturn == "advance"

\* vkAcquireNextImageKHR == VK_ERROR_OUT_OF_DATE_KHR: recreateSwapChain(); return;
AcquireOutOfDate ==
    /\ pc = "acquire"
    /\ "OUT_OF_DATE" \in StaleResults
    /\ cycle' = [cycle EXCEPT !.staleAcquire = TRUE,
                              !.acqSem = AcquireSemaphore(currentFrame),
                              !.recreated = @ + 1]
    /\ EnterRecreate(AcquireStaleReturn)
    /\ UNCHANGED <<frames, destroyLog>>
    /\ UNCHANGED <<appVars, scVars, objVars, devVars, gpuVars, envVars>>
    /\ UNCHANGED mgrVars

\* vkAcquireNextImageKHR == VK_SUCCESS or VK_SUBOPTIMAL_KHR: an image of the chain
\* is handed out and the semaphore passed to the call gets signaled.
AcquireImage ==
    /\ pc = "acquire"
    /\ \E r \in {"SUCCESS"} \cup (StaleResults \ {"OUT_OF_DATE"}) :
       \E i \in DOMAIN imgState :
        /\ imgState[i] = "free"
        /\ imageIndex' = i
        /\ imgState' = [imgState EXCEPT ![i] = "acquired"]
        /\ semSignaled' = [semSignaled EXCEPT ![AcquireSemaphore(currentFrame)] = TRUE]
        /\ cycle' = [cycle EXCEPT !.acqSem = AcquireSemaphore(currentFrame)]
    /\ pc' = "updateUniform"
    /\ UNCHANGED <<retPc, rcIdx, rcSizeZero, tdIdx, currentFrame, framebufferResized>>
    /\ UNCHANGED <<fenceSignaled, inFlight, presentQ, frames, rcLog, destroyLog>>
    /\ UNCHANGED <<scVars, objVars, devVars, envVars>>
    /\ UNCHANGED mgrVars

\* Fault seed: the region of the next slot is written.
UniformSlot_Next(currentImage) == (currentImage + 1) % MAX_FRAMES_IN_FLIGHT

\* getUniformBuffersMapped()[currentImage]: the region updateUniformBuffer writes.
UniformSlot(currentImage) == currentImage

\* updateUniformBuffer(frameIndex): memcpy of the value computed for this
\* frame (it depends on the time) into the slot's mapped region.
UpdateUniformBuffer ==
    /\ pc = "updateUniform"
    /\ bufferData' = [bufferData EXCEPT ![UniformBuffer(UniformSlot(currentFrame))] = <<frames>>]
    /\ pc' = "record"
    /\ UNCHANGED <<retPc, rcIdx, rcSizeZero, tdIdx>>
    /\ UNCHANGED <<appVars, scVars, objVars, devVars, gpuVars, envVars, obsVars>>
    /\ UNCHANGED <<texture, descriptorSets, poolSets, tpc, mlog, ncalls, samplerManager, call>>
    /\ UNCHANGED <<bufferManager, staging, copyQ, upc, uplog>>

\* What GraphicsPipeline::recordCommandBuffer(frameIndex, imageIndex) binds.
RecordedRefs(s, img) ==
    {framebuffers[img + 1], RenderPass, Pipeline, PipelineLayout, VertexBuffer,
     IndexBuffer, DescriptorPool, descriptorSets[s + 1].buffer,
     descriptorSets[s + 1].imageView, ImageOf(descriptorSets[s + 1].imageView),
     descriptorSets[s + 1].sampler}
      \cup {a[2] : a \in {b \in attach : b[1] = framebuffers[img + 1]}}
      \cup {swapChain}

\* The commands recordCommandBuffer issues, in program order, each with the
\* object or value it names.
RecordedCommands(commandBuffer, framebuffer, descriptorSet) ==
    << <<"vkBeginCommandBuffer", commandBuffer>>,
       <<"vkCmdBeginRenderPass", framebuffer>>,
       <<"vkCmdBindPipeline", Pipeline>>,
       <<"vkCmdSetViewport", swapChain>>,
       <<"vkCmdSetScissor", swapChain>>,
       <<"vkCmdBindVertexBuffers", bufferManager.vertexBuffer>>,
       <<"vkCmdBindIndexBuffer", bufferManager.indexBuffer>>,
       <<"vkCmdBindDescriptorSets", descriptorSet>>,
       <<"vkCmdDrawIndexed", Len(bufferManager.indices)>>,
       <<"vkCmdEndRenderPass", NullHandle>>,
       <<"vkEndCommandBuffer", commandBuffer>> >>

\* Fault seed: the framebuffer is selected by the slot index.
recordCommandBuffer_FramebufferOfSlot(frameIndex, img) ==
    RecordedCommands(commandBuffers[frameIndex + 1], framebuffers[frameIndex + 1],
                     descriptorSets[frameIndex + 1])

\* GraphicsPipeline::recordCommandBuffer(frameIndex, imageIndex): the command
\* buffer is getCommandBuffer(frameIndex), the framebuffer framebuffers[imageIndex],
\* the descriptor set getDescriptorSet(frameIndex).
recordCommandBuffer(frameIndex, img) ==
    RecordedCommands(commandBuffers[frameIndex + 1], framebuffers[img + 1],
                     descriptorSets[frameIndex + 1])

\* vkResetCommandBuffer(cmdBuffer, 0); graphicsPipeline->recordCommandBuffer(...)
RecordCommandBuffer ==
    /\ pc = "record"
    /\ cbContent' = [cbContent EXCEPT ![currentFrame] =
                        <<[image |-> imageIndex, refs |-> RecordedRefs(currentFrame, imageIndex),
                           cmds |-> recordCommandBuffer(currentFrame, imageIndex)]>>]
    /\ cycle' = [cycle EXCEPT !.recorded = TRUE]
    /\ pc' = "submit"
    /\ UNCHANGED <<retPc, rcIdx, rcSizeZero, tdIdx, framebuffers, commandBuffers>>
    /\ UNCHANGED <<frames, rcLog, destroyLog>>
    /\ UNCHANGED <<appVars, scVars, devVars, gpuVars, envVars>>
    /\ UNCHANGED mgrVars

\* vkQueueSubmit(graphicsQueue, 1, &submitInfo, inFlightFence(frameIndex))
QueueSubmit ==
    /\ pc = "submit"
    /\ inFlight' = inFlight \cup
          {[id |-> frames, slot |-> currentFrame, image |-> imageIndex,
            cb |-> commandBuffers[currentFrame + 1],
            wait |-> SubmitWait(currentFrame),
            signal |-> SubmitSignal(currentFrame),
            fence |-> SubmitFence(currentFrame),
            refs |-> cbContent[currentFrame][1].refs
                       \cup {commandBuffers[currentFrame + 1], CommandPool,
                             SubmitWait(currentFrame), SubmitSignal(currentFrame),
                             SubmitFence(currentFrame)}]}
    /\ cycle' = [cycle EXCEPT !.submitted = TRUE]
    /\ pc' = "present"
    /\ UNCHANGED <<retPc, rcIdx, rcSizeZero, tdIdx>>
    /\ UNCHANGED <<fenceSignaled, semSignaled, presentQ, imgState>>
    /\ UNCHANGED <<frames, rcLog, destroyLog>>
    /\ UNCHANGED <<appVars, scVars, objVars, devVars, envVars>>
    /\ UNCHANGED mgrVars

\* Fault seed: only VK_ERROR_OUT_OF_DATE_KHR leads to a recreation.
PresentRecreates_OutOfDateOnly(r, resized) == r = "OUT_OF_DATE"

\* result == OUT_OF_DATE || result == SUBOPTIMAL || framebufferResized
PresentRecreates(r, resized) == r = "OUT_OF_DATE" \/ r = "SUBOPTIMAL" \/ resized

\* The present request vkQueuePresentKHR puts on the present queue.
PresentRequest ==
    [id |-> frames, slot |-> currentFrame, image |-> imageIndex,
     wait |-> PresentWait(currentFrame), chain |-> swapChain]

\* vkQueuePresentKHR returned and drawFrame goes straight to the slot advance.
PresentOk ==
    /\ pc = "present"
    /\ \E r \in {"SUCCESS"} \cup StaleResults :
        /\ ~PresentRecreates(r, framebufferResized)
        /\ cycle' = [cycle EXCEPT !.stalePresent = ReportsStale(r) \/ framebufferResized,
                                  !.presented = TRUE]
    /\ presentQ' = presentQ \cup {PresentRequest}
    /\ imgState' = [imgState EXCEPT ![imageIndex] = "queued"]
    /\ frames' = frames + 1
    /\ imageIndex' = 0
    /\ pc' = "advance"
    /\ UNCHANGED <<retPc, rcIdx, rcSizeZero, tdIdx, currentFrame, framebufferResized>>
    /\ UNCHANGED <<fenceSignaled, semSignaled, inFlight, rcLog, destroyLog>>
    /\ UNCHANGED <<scVars, objVars, devVars, envVars>>
    /\ UNCHANGED mgrVars

\* vkQueuePresentKHR returned stale, or the resize flag is set:
\* framebufferResized = false; recreateSwapChain();
PresentStale ==
    /\ pc = "present"
    /\ \E r \in {"SUCCESS"} \cup StaleResults :
        /\ PresentRecreates(r, framebufferResized)
        /\ cycle' = [cycle EXCEPT !.stalePresent = ReportsStale(r) \/ framebufferResized,
                                  !.presented = TRUE, !.recreated = @ + 1]
    /\ presentQ' = presentQ \cup {PresentRequest}
    /\ imgState' = [imgState EXCEPT ![imageIndex] = "queued"]
    /\ frames' = frames + 1
    /\ framebufferResized' = FALSE
    /\ imageIndex' = 0
    /\ EnterRecreate(PresentStaleReturn)
    /\ UNCHANGED <<currentFrame, destroyLog>>
    /\ UNCHANGED <<fenceSignaled, semSignaled, inFlight>>
    /\ UNCHANGED <<scVars, objVars, devVars, envVars>>
    /\ UNCHANGED mgrVars

\* Fault seed: the slot index is incremented without the modulo.
NextFrame_NoWrap(c) == c + 1

\* currentFrame = (currentFrame + 1) % MAX_FRAMES_IN_FLIGHT
NextFrame(c) == (c + 1) % MAX_FRAMES_IN_FLIGHT

AdvanceFrame ==
    /\ pc = "advance"
    /\ currentFrame' = NextFrame(currentFrame)
    /\ pc' = "afterDraw"
    /\ UNCHANGED <<retPc, rcIdx, rcSizeZero, tdIdx, framebufferResized, imageIndex>>
    /\ UNCHANGED <<scVars, objVars, devVars, gpuVars, envVars, obsVars>>
    /\ UNCHANGED mgrVars

\* run(): if (framebufferResized) { recreateSwapChain(); framebufferResized = false; }
RunResized ==
    /\ pc = "afterDraw"
    /\ framebufferResized
    /\ EnterRecreate("clearFlag")
    /\ cycle' = [NoCycle EXCEPT !.before = cycle.recreated]
    /\ UNCHANGED <<frames, destroyLog>>
    /\ UNCHANGED <<appVars, scVars, objVars, devVars, gpuVars, envVars>>
    /\ UNCHANGED mgrVars

RunNotResized ==
    /\ pc = "afterDraw"
    /\ ~framebufferResized
    /\ pc' = "loop"
    /\ cycle' = NoCycle
    /\ UNCHANGED <<retPc, rcIdx, rcSizeZero, tdIdx, frames, rcLog, destroyLog>>
    /\ UNCHANGED <<appVars, scVars, objVars, devVars, gpuVars, envVars>>
    /\ UNCHANGED mgrVars

RunClearFlag ==
    /\ pc = "clearFlag"
    /\ framebufferResized' = FALSE
    /\ pc' = "loop"
    /\ cycle' = NoCycle
    /\ UNCHANGED <<retPc, rcIdx, rcSizeZero, tdIdx, currentFrame, imageIndex>>
    /\ UNCHANGED <<frames, rcLog, destroyLog>>
    /\ UNCHANGED <<scVars, objVars, devVars, gpuVars, envVars>>
    /\ UNCHANGED mgrVars

(***************************************************************************)
(* VulkanApplication::recreateSwapChain.                                   *)
(***************************************************************************)
\* int width = 0, height = 0; glfwGetFramebufferSize(...); while (w == 0 || h == 0)
RcGetSize ==
    /\ pc = "rc_getSize"
    /\ rcSizeZero' = windowZero
    /\ pc' = IF windowZero THEN "rc_loopGetSize" ELSE "rc_body"
    /\ UNCHANGED <<retPc, rcIdx, tdIdx>>
    /\ UNCHANGED <<appVars, scVars, objVars, devVars, gpuVars, envVars, obsVars>>
    /\ UNCHANGED mgrVars

\* loop body, first statement: glfwGetFramebufferSize(glfwWindow, &width, &height);
RcLoopGetSize ==
    /\ pc = "rc_loopGetSize"
    /\ rcSizeZero' = windowZero
    /\ pc' = "rc_waitEvents"
    /\ UNCHANGED <<retPc, rcIdx, tdIdx>>
    /\ UNCHANGED <<appVars, scVars, objVars, devVars, gpuVars, envVars, obsVars>>
    /\ UNCHANGED mgrVars

\* loop body, second statement: glfwWaitEvents() sleeps until an event is queued,
\* delivers the queued events, and the loop condition is tested again.
RcWaitEvents ==
    /\ pc = "rc_waitEvents"
    /\ events # {}
    /\ DeliverEvents
    /\ pc' = IF rcSizeZero THEN "rc_loopGetSize" ELSE "rc_body"
    /\ UNCHANGED <<retPc, rcIdx, rcSizeZero, tdIdx, currentFrame, imageIndex>>
    /\ UNCHANGED <<surfaceStale, windowZero>>
    /\ UNCHANGED <<scVars, objVars, devVars, gpuVars, obsVars>>
    /\ UNCHANGED mgrVars

\* Fault seed: the swap chain is cleaned up before the framebuffers.
recreateSteps_CleanupFirst ==
    << "vkDeviceWaitIdle", "cleanupSwapChain", "destroyFramebuffers",
       "recreateSwapChain", "createFrameBuffers", "vkFreeCommandBuffers",
       "createCommandBuffers" >>

\* Fault seed: the old command buffers are not freed.
recreateSteps_NoFree ==
    << "vkDeviceWaitIdle", "destroyFramebuffers", "cleanupSwapChain",
       "recreateSwapChain", "createFrameBuffers", "createCommandBuffers" >>

\* The statements of recreateSwapChain after the size loop, in program order.
recreateSteps ==
    << "vkDeviceWaitIdle", "destroyFramebuffers", "cleanupSwapChain",
       "recreateSwapChain", "createFrameBuffers", "vkFreeCommandBuffers",
       "createCommandBuffers" >>

InRecreate == pc \in {"rc_getSize", "rc_loopGetSize", "rc_waitEvents", "rc_body"}
RecreateDone == pc = "rc_body" /\ rcIdx > Len(recreateSteps)

RcAt(step) == pc = "rc_body" /\ rcIdx <= Len(recreateSteps) /\ recreateSteps[rcIdx] = step

RcStepDone ==
    /\ rcLog' = Append(rcLog, recreateSteps[rcIdx])
    /\ rcIdx' = rcIdx + 1
    /\ UNCHANGED <<pc, retPc, rcSizeZero, tdIdx, frames, cycle, destroyLog>>

\* vkDeviceWaitIdle(device)
RcDeviceWaitIdle ==
    /\ RcAt("vkDeviceWaitIdle")
    /\ DeviceIdle
    /\ RcStepDone
    /\ UNCHANGED <<appVars, scVars, objVars, devVars, gpuVars, envVars>>
    /\ UNCHANGED mgrVars

\* GraphicsPipeline::destroyFramebuffers: destroy each, then framebuffers.clear()
RcDestroyFramebuffers ==
    /\ RcAt("destroyFramebuffers")
    /\ alive' = alive \ Range(framebuffers)
    /\ attach' = {a \in attach : a[1] \notin Range(framebuffers)}
    /\ framebuffers' = <<>>
    /\ RcStepDone
    /\ UNCHANGED <<commandBuffers, cbContent>>
    /\ UNCHANGED <<appVars, scVars, gpuVars, envVars>>
    /\ UNCHANGED mgrVars

\* SwapChain::cleanupSwapChain
RcCleanupSwapChain ==
    /\ RcAt("cleanupSwapChain")
    /\ alive' = CleanupSwapChain(alive)
    /\ RcStepDone
    /\ UNCHANGED attach
    /\ UNCHANGED <<appVars, scVars, objVars, gpuVars, envVars>>
    /\ UNCHANGED mgrVars

\* SwapChain::recreateSwapChain: createSwapChain(); createImageViews();
\* n is the image count the surface hands out for the new chain.
SwapChainRecreate(n) ==
    /\ swapChain' = NewChain(FreshGen)
    /\ swapChainImages' = n
    /\ swapChainImageViews' = NewViews(FreshGen, n)
    /\ alive' = alive \cup {NewChain(FreshGen)} \cup Range(NewViews(FreshGen, n))

RcRecreateSwapChain ==
    /\ RcAt("recreateSwapChain")
    /\ \E n \in ImageCounts :
        /\ SwapChainRecreate(n)
        /\ imgState' = [i \in 0 .. (n - 1) |-> "free"]
    /\ surfaceStale' = FALSE
    /\ RcStepDone
    /\ UNCHANGED <<attach, fenceSignaled, semSignaled, inFlight, presentQ>>
    /\ UNCHANGED <<events, shouldClose, windowZero>>
    /\ UNCHANGED <<appVars, objVars>>
    /\ UNCHANGED mgrVars

\* GraphicsPipeline::createFrameBuffers(swapChain->getSwapChainImageViews(), extent)
RcCreateFrameBuffers ==
    /\ RcAt("createFrameBuffers")
    /\ framebuffers' = NewFramebuffers(FreshGen, swapChainImageViews)
    /\ attach' = attach \cup NewAttach(FreshGen, swapChainImageViews)
    /\ alive' = alive \cup Range(NewFramebuffers(FreshGen, swapChainImageViews))
    /\ RcStepDone
    /\ UNCHANGED <<commandBuffers, cbContent>>
    /\ UNCHANGED <<appVars, scVars, gpuVars, envVars>>
    /\ UNCHANGED mgrVars

\* for (i < MAX_FRAMES_IN_FLIGHT) vkFreeCommandBuffers(device, pool, 1, &cmdBuffer(i))
RcFreeCommandBuffers ==
    /\ RcAt("vkFreeCommandBuffers")
    /\ alive' = alive \ Range(commandBuffers)
    /\ RcStepDone
    /\ UNCHANGED attach
    /\ UNCHANGED <<appVars, scVars, objVars, gpuVars, envVars>>
    /\ UNCHANGED mgrVars

\* CommandBufferManager::createCommandBuffers
RcCreateCommandBuffers ==
    /\ RcAt("createCommandBuffers")
    /\ commandBuffers' = NewCommandBuffers(FreshGen)
    /\ cbContent' = [s \in Slots |-> <<>>]
    /\ alive' = alive \cup Range(NewCommandBuffers(FreshGen))
    /\ RcStepDone
    /\ UNCHANGED <<attach, framebuffers>>
    /\ UNCHANGED <<appVars, scVars, gpuVars, envVars>>
    /\ UNCHANGED mgrVars

\* recreateSwapChain returns to its caller.
RcReturn ==
    /\ pc = "rc_body"
    /\ rcIdx > Len(recreateSteps)
    /\ pc' = retPc
    /\ retPc' = "none"
    /\ UNCHANGED <<rcIdx, rcSizeZero, tdIdx>>
    /\ UNCHANGED <<appVars, scVars, objVars, devVars, gpuVars, envVars, obsVars>>
    /\ UNCHANGED mgrVars

(***************************************************************************)
(* End of run() and VulkanApplication::destroyResources.                   *)
(***************************************************************************)
\* vkDeviceWaitIdle(device) after the loop; run() returns.
RunExitWaitIdle ==
    /\ pc = "exitWaitIdle"
    /\ DeviceIdle
    /\ pc' = "returned"
    /\ UNCHANGED <<retPc, rcIdx, rcSizeZero, tdIdx>>
    /\ UNCHANGED <<appVars, scVars, objVars, devVars, gpuVars, envVars, obsVars>>
    /\ UNCHANGED mgrVars

\* main(): the application object goes out of scope; ~VulkanApplication().
AppDestructor ==
    /\ pc = "returned"
    /\ pc' = "destroyResources"
    /\ tdIdx' = 1
    /\ UNCHANGED <<retPc, rcIdx, rcSizeZero>>
    /\ UNCHANGED <<appVars, scVars, objVars, devVars, gpuVars, envVars, obsVars>>
    /\ UNCHANGED mgrVars

\* One reset() of destroyResources: the member's destructor destroys its handles.
DestroyComponent ==
    /\ pc = "destroyResources"
    /\ tdIdx <= Len(TeardownOrder)
    /\ alive' = alive \ ComponentHandles(TeardownOrder[tdIdx])
    /\ attach' = {a \in attach : a[1] \in alive'}
    /\ destroyLog' = Append(destroyLog, TeardownOrder[tdIdx])
    /\ tdIdx' = tdIdx + 1
    /\ pc' = IF tdIdx = Len(TeardownOrder) THEN "destroyed" ELSE pc
    /\ UNCHANGED <<retPc, rcIdx, rcSizeZero, frames, cycle, rcLog>>
    /\ UNCHANGED <<appVars, scVars, objVars, gpuVars, envVars>>
    /\ UNCHANGED mgrVars

Next ==
    \/ WindowResize \/ WindowMinimize \/ WindowRestore \/ CloseRequest
    \/ GpuComplete \/ PresentComplete
    \/ RunLoop \/ PollEvents \/ WaitForFences \/ ResetFences
    \/ AcquireOutOfDate \/ AcquireImage \/ UpdateUniformBuffer
    \/ RecordCommandBuffer \/ QueueSubmit \/ PresentOk \/ PresentStale
    \/ AdvanceFrame \/ RunResized \/ RunNotResized \/ RunClearFlag
    \/ RcGetSize \/ RcLoopGetSize \/ RcWaitEvents
    \/ RcDeviceWaitIdle \/ RcDestroyFramebuffers \/ RcCleanupSwapChain
    \/ RcRecreateSwapChain \/ RcCreateFrameBuffers \/ RcFreeCommandBuffers
    \/ RcCreateCommandBuffers \/ RcReturn
    \/ RunExitWaitIdle \/ AppDestructor \/ DestroyComponent

Spec == Init /\ [][Next]_vars

\* The frame loop in the executions in which vkAcquireNextImageKHR never
\* returns VK_ERROR_OUT_OF_DATE_KHR: every step of Next but AcquireOutOfDate.
NextNoStaleAcquire ==
    \/ WindowResize \/ WindowMinimize \/ WindowRestore \/ CloseRequest
    \/ GpuComplete \/ PresentComplete
    \/ RunLoop \/ PollEvents \/ WaitForFences \/ ResetFences
    \/ AcquireImage \/ UpdateUniformBuffer
    \/ RecordCommandBuffer \/ QueueSubmit \/ PresentOk \/ PresentStale
    \/ AdvanceFrame \/ RunResized \/ RunNotResized \/ RunClearFlag
    \/ RcGetSize \/ RcLoopGetSize \/ RcWaitEvents
    \/ RcDeviceWaitIdle \/ RcDestroyFramebuffers \/ RcCleanupSwapChain
    \/ RcRecreateSwapChain \/ RcCreateFrameBuffers \/ RcFreeCommandBuffers
    \/ RcCreateCommandBuffers \/ RcReturn
    \/ RunExitWaitIdle \/ AppDestructor \/ DestroyComponent

SpecNoStaleAcquire == Init /\ [][NextNoStaleAcquire]_vars

\* The submissions on the graphics queue that will signal slot s's fence.
PendingOn(s) == {f \in inFlight : f.fence = SubmitFence(s)}

\* C39: without a stale acquire, whenever the loop is at the fence wait of a
\* slot, the slot's fence is signaled or a pending submission will signal it;
\* in the first cycle of each slot nothing has been submitted with the fence
\* and the fence is signaled, as it was created.
C39_FenceSignaledOrPending ==
    pc = "waitFence" =>
        /\ fenceSignaled[currentFrame] \/ PendingOn(currentFrame) # {}
        /\ frames < MAX_FRAMES_IN_FLIGHT =>
              fenceSignaled[currentFrame] /\ PendingOn(currentFrame) = {}

\* the wait of a later cycle finds the fence unsignaled with the slot's
\* previous submission still pending.
C39_Witness ==
    /\ pc = "waitFence" /\ frames >= MAX_FRAMES_IN_FLIGHT
    /\ ~fenceSignaled[currentFrame] /\ PendingOn(currentFrame) # {}

\* the first wait of slot 1 passes on the fence as created.
C39_WitnessFirst ==
    /\ pc = "waitFence" /\ frames = 1 /\ currentFrame = 1
    /\ fenceSignaled[1] /\ inFlight # {}

\* C26: a step of the frame loop that rewrites a slot's uniform region, or
\* resets and re-records a slot's command buffer, does so for the slot of the
\* running cycle only, after that slot's fence wait, and while no submission
\* of the slot is in flight; the other slots are left as they are.  (A
\* recreation replaces the command buffers of all slots.)
C26_SlotWrites ==
    [][\A s \in Slots :
          (\/ bufferData'[UniformBuffer(s)] # bufferData[UniformBuffer(s)]
           \/ (cbContent'[s] # cbContent[s] /\ pc # "rc_body"))
             => /\ s = currentFrame /\ s = cycle.slot
                /\ pc \in {"updateUniform", "record"}
                /\ ~\E f \in inFlight : f.slot = s]_vars

C26_Witness ==
    /\ pc = "record" /\ currentFrame = 0
    /\ bufferData[UniformBuffer(0)] = <<2>>
    /\ bufferData[UniformBuffer(1)] = <<1>>
    /\ \E f \in inFlight : f.slot = 1

\* The kinds of handle a swap-chain recreation replaces.
ChainKinds == {"swapChain", "imageView", "framebuffer", "commandBuffer"}

OfKind(k) == {h \in alive : h[1] = k}

\* C27: every step taken while recreateSwapChain runs leaves the semaphores
\* and fences, the pipeline, its layout and the render pass, the descriptor
\* pool and sets, the vertex, index and uniform buffers, the texture and the
\* slot index as they are; the chain, its image views, the framebuffers and
\* the command buffers are each replaced by new handles, and when the
\* recreation has finished exactly MAX_FRAMES_IN_FLIGHT command buffers are
\* allocated, one chain, and the views and framebuffers of that chain.
C27_RecreationScope ==
    [][InRecreate =>
         /\ {h \in alive' : h[1] \notin ChainKinds} = {h \in alive : h[1] \notin ChainKinds}
         /\ currentFrame' = currentFrame
         /\ UNCHANGED <<texture, descriptorSets, poolSets, bufferManager, bufferData>>
         /\ swapChain' # swapChain =>
               swapChain \notin alive' /\ swapChain' \in alive'
         /\ swapChainImageViews' # swapChainImageViews =>
               Range(swapChainImageViews) \cap alive' = {}
         /\ framebuffers' # framebuffers => Range(framebuffers) \cap alive' = {}
         /\ commandBuffers' # commandBuffers => Range(commandBuffers) \cap alive' = {}
         /\ RecreateDone' =>
               /\ Len(commandBuffers') = MAX_FRAMES_IN_FLIGHT
               /\ {h \in alive' : h[1] = "commandBuffer"} = Range(commandBuffers')
               /\ Cardinality(Range(commandBuffers')) = MAX_FRAMES_IN_FLIGHT
               /\ {h \in alive' : h[1] = "swapChain"} = {swapChain'}
               /\ {h \in alive' : h[1] = "imageView"} = Range(swapChainImageViews')
               /\ {h \in alive' : h[1] = "framebuffer"} = Range(framebuffers')]_vars

\* C27 case: a recreation has finished after a frame was presented and the
\* loop had moved to slot 1; the chain and the command buffers are new ones.
C27_Witness ==
    /\ RecreateDone /\ frames >= 1 /\ currentFrame = 1
    /\ swapChain # NewChain(0)
    /\ commandBuffers # NewCommandBuffers(0)
    /\ OfKind("commandBuffer") = Range(commandBuffers)
    /\ bufferData[UniformBuffer(0)] = <<0>>

\* C28: what recordCommandBuffer(frameIndex, imageIndex) has recorded when
\* drawFrame goes on to submit it: in the command buffer of the slot, in this
\* order, begin, begin render pass on framebuffers[imageIndex], bind pipeline,
\* viewport and scissor of the current swap chain, vertex and index buffer,
\* the descriptor set of the slot, an indexed draw of all indices, end render
\* pass, end.
C28_RecordOrder ==
    pc = "submit" =>
        LET cmds == cbContent[currentFrame][1].cmds
        IN  /\ [i \in 1 .. Len(cmds) |-> cmds[i][1]] =
                  << "vkBeginCommandBuffer", "vkCmdBeginRenderPass", "vkCmdBindPipeline",
                     "vkCmdSetViewport", "vkCmdSetScissor", "vkCmdBindVertexBuffers",
                     "vkCmdBindIndexBuffer", "vkCmdBindDescriptorSets", "vkCmdDrawIndexed",
                     "vkCmdEndRenderPass", "vkEndCommandBuffer" >>
            /\ cmds[1][2] = H("commandBuffer", commandBuffers[1][2], currentFrame)
            /\ cmds[11][2] = cmds[1][2]
            /\ cmds[2][2] = H("framebuffer", framebuffers[1][2], imageIndex)
            /\ cmds[3][2] = Pipeline
            /\ cmds[4][2] = swapChain /\ cmds[5][2] = swapChain
            /\ cmds[6][2] = VertexBuffer /\ cmds[7][2] = IndexBuffer
            /\ cmds[8][2] = descriptorSets[currentFrame + 1]
            /\ cmds[8][2].buffer = UniformBuffer(currentFrame)
            /\ cmds[9][2] = Len(bufferData[IndexBuffer])

\* C28 case: a cycle of slot 0 has recorded against the framebuffer of image 1.
C28_Witness ==
    /\ pc = "submit" /\ currentFrame = 0 /\ imageIndex = 1
    /\ Len(cbContent[0][1].cmds) = 11

\* recreateSwapChain() calls of the current iteration of run()'s loop: those
\* of drawFrame, and the one run() makes itself.
IterationRecreations ==
    IF retPc = "clearFlag" \/ pc = "clearFlag" THEN cycle.before + 1 ELSE cycle.recreated

\* C18: an iteration of run()'s loop recreates the swap chain at most once,
\* and when drawFrame has recreated it the resize flag is clear on return.
C18_ResizeConsumedOnce ==
    /\ IterationRecreations <= 1
    /\ (pc = "afterDraw" /\ cycle.recreated >= 1) => ~framebufferResized

(***************************************************************************)
(* drawFrame when vkAcquireNextImageKHR, vkQueueSubmit or                  *)
(* vkQueuePresentKHR fails with an error that is not staleness.            *)
(***************************************************************************)
\* result != VK_SUCCESS && result != VK_SUBOPTIMAL_KHR:
\* throw std::runtime_error("failed to acquire swap chain image!"); neither
\* drawFrame nor run() catches it.
AcquireFails ==
    /\ pc = "acquire"
    /\ cycle' = [cycle EXCEPT !.error = "acquire"]
    /\ pc' = "threw"
    /\ UNCHANGED <<retPc, rcIdx, rcSizeZero, tdIdx, frames, rcLog, destroyLog>>
    /\ UNCHANGED <<appVars, scVars, objVars, devVars, gpuVars, envVars>>
    /\ UNCHANGED mgrVars

\* vkQueueSubmit != VK_SUCCESS:
\* throw std::runtime_error("failed to submit draw command buffer!")
SubmitFails ==
    /\ pc = "submit"
    /\ cycle' = [cycle EXCEPT !.error = "submit"]
    /\ pc' = "threw"
    /\ UNCHANGED <<retPc, rcIdx, rcSizeZero, tdIdx, frames, rcLog, destroyLog>>
    /\ UNCHANGED <<appVars, scVars, objVars, devVars, gpuVars, envVars>>
    /\ UNCHANGED mgrVars

\* vkQueuePresentKHR returns an error such as VK_ERROR_DEVICE_LOST and nothing
\* is queued.  The first branch of the if is taken when framebufferResized is
\* set: framebufferResized = false; recreateSwapChain(); and the slot advance.
\* Otherwise: throw std::runtime_error("failed to present swap chain image!").
PresentFails ==
    /\ pc = "present"
    /\ IF PresentRecreates("ERROR", framebufferResized)
       THEN /\ cycle' = [cycle EXCEPT !.error = "present", !.recreated = @ + 1]
            /\ framebufferResized' = FALSE
            /\ EnterRecreate(PresentStaleReturn)
       ELSE /\ cycle' = [cycle EXCEPT !.error = "present"]
            /\ pc' = "threw"
            /\ UNCHANGED <<framebufferResized, retPc, rcIdx, rcSizeZero, tdIdx, rcLog>>
    /\ UNCHANGED <<currentFrame, imageIndex, frames, destroyLog>>
    /\ UNCHANGED <<scVars, objVars, devVars, gpuVars, envVars>>
    /\ UNCHANGED mgrVars

\* The frame loop with resizes of the window and the three failures.
NextFaults ==
    \/ WindowResize
    \/ GpuComplete \/ PresentComplete
    \/ RunLoop \/ PollEvents \/ WaitForFences \/ ResetFences
    \/ AcquireOutOfDate \/ AcquireImage \/ UpdateUniformBuffer
    \/ RecordCommandBuffer \/ QueueSubmit \/ PresentOk \/ PresentStale
    \/ AdvanceFrame \/ RunResized \/ RunNotResized \/ RunClearFlag
    \/ RcGetSize
    \/ RcDeviceWaitIdle \/ RcDestroyFramebuffers \/ RcCleanupSwapChain
    \/ RcRecreateSwapChain \/ RcCreateFrameBuffers \/ RcFreeCommandBuffers
    \/ RcCreateCommandBuffers \/ RcReturn
    \/ AcquireFails \/ SubmitFails \/ PresentFails

SpecFaults == Init /\ [][NextFaults]_vars

\* The exception leaves run() without reaching its vkDeviceWaitIdle and
\* leaves the try block of main(): the application object goes out of scope
\* and ~VulkanApplication() calls destroyResources().
Unwind ==
    /\ pc = "threw"
    /\ pc' = "destroyResources"
    /\ tdIdx' = 1
    /\ UNCHANGED <<retPc, rcIdx, rcSizeZero>>
    /\ UNCHANGED <<appVars, scVars, objVars, devVars, gpuVars, envVars, obsVars>>
    /\ UNCHANGED mgrVars

\* The frame loop with the three failures, and what follows a failure.
NextUnwind ==
    \/ NextFaults
    \/ Unwind
    \/ DestroyComponent

SpecUnwind == Init /\ [][NextUnwind]_vars

\* C33 (as claimed): in the teardown that follows a fatal error of a frame
\* cycle, everything a submitted and not yet completed frame references is
\* still alive.
C33_NoDestroyAfterFatal ==
    (cycle.error # "none" /\ pc \in {"destroyResources", "destroyed"})
        => \A f \in inFlight : f.refs \subseteq alive

\* C17: a cycle in which the acquire, the submit or the present failed with
\* an error other than staleness ends with the exception leaving run(), on
\* the slot it started with.
C17_FatalErrorsAbort ==
    cycle.error # "none" => pc = "threw" /\ currentFrame = cycle.slot

\* The steps of the thread that executes main(): it runs whenever it is not
\* blocked in a wait.
ControlStep ==
    \/ RunLoop \/ PollEvents \/ WaitForFences \/ ResetFences
    \/ AcquireOutOfDate \/ AcquireImage \/ UpdateUniformBuffer
    \/ RecordCommandBuffer \/ QueueSubmit \/ PresentOk \/ PresentStale
    \/ AdvanceFrame \/ RunResized \/ RunNotResized \/ RunClearFlag
    \/ RcGetSize \/ RcLoopGetSize \/ RcWaitEvents
    \/ RcDeviceWaitIdle \/ RcDestroyFramebuffers \/ RcCleanupSwapChain
    \/ RcRecreateSwapChain \/ RcCreateFrameBuffers \/ RcFreeCommandBuffers
    \/ RcCreateCommandBuffers \/ RcReturn
    \/ RunExitWaitIdle \/ AppDestructor \/ DestroyComponent

\* The thread keeps running and both queues complete the work they can
\* execute; the window system is free to stay silent.
SpecFair ==
    Spec /\ WF_vars(ControlStep) /\ WF_vars(GpuComplete) /\ WF_vars(PresentComplete)

(***************************************************************************)
(* A SwapChain object on its own, driven by a client that calls its public *)
(* methods cleanupSwapChain() and recreateSwapChain() in any order.        *)
(***************************************************************************)
InitSwapChain ==
    /\ pc = "client"
    /\ retPc = "none"
    /\ rcIdx = 0
    /\ rcSizeZero = FALSE
    /\ tdIdx = 1
    /\ currentFrame = 0
    /\ framebufferResized = FALSE
    /\ imageIndex = 0
    /\ \E n \in ImageCounts :
        /\ swapChain = NewChain(0)
        /\ swapChainImages = n
        /\ swapChainImageViews = NewViews(0, n)
        /\ alive = {NewChain(0), Device, PhysicalDevice, Surface, Instance}
                      \cup Range(NewViews(0, n))
        /\ imgState = [i \in 0 .. (n - 1) |-> "free"]
    /\ framebuffers = <<>>
    /\ attach = {}
    /\ commandBuffers = <<>>
    /\ cbContent = [s \in Slots |-> <<>>]
    /\ fenceSignaled = [s \in Slots |-> createFence(s)]
    /\ semSignaled = [h \in {ImageAvailable(s) : s \in Slots}
                            \cup {RenderFinished(s) : s \in Slots} |-> FALSE]
    /\ inFlight = {}
    /\ presentQ = {}
    /\ surfaceStale = FALSE
    /\ events = {}
    /\ shouldClose = FALSE
    /\ windowZero = FALSE
    /\ frames = 0
    /\ cycle = NoCycle
    /\ rcLog = <<>>
    /\ destroyLog = <<>>
    /\ InitManagers

\* swapChain.cleanupSwapChain(), called while the chain it holds is alive.
ClientCleanup ==
    /\ pc = "client" /\ Len(rcLog) < MaxCalls
    /\ swapChain \in alive
    /\ alive' = CleanupSwapChain(alive)
    /\ rcLog' = Append(rcLog, "cleanupSwapChain")
    /\ UNCHANGED <<attach, frames, cycle, destroyLog>>
    /\ UNCHANGED <<ctlVars, appVars, scVars, objVars, gpuVars, envVars>>
    /\ UNCHANGED mgrVars

\* swapChain.recreateSwapChain()
ClientRecreate ==
    /\ pc = "client" /\ Len(rcLog) < MaxCalls
    /\ \E n \in ImageCounts :
        /\ SwapChainRecreate(n)
        /\ imgState' = [i \in 0 .. (n - 1) |-> "free"]
    /\ rcLog' = Append(rcLog, "recreateSwapChain")
    /\ UNCHANGED <<attach, frames, cycle, destroyLog>>
    /\ UNCHANGED <<fenceSignaled, semSignaled, inFlight, presentQ>>
    /\ UNCHANGED <<ctlVars, appVars, objVars, envVars>>
    /\ UNCHANGED mgrVars

NextSwapChain == ClientCleanup \/ ClientRecreate

SpecSwapChain == InitSwapChain /\ [][NextSwapChain]_vars

\* vkDestroyImageView for each element of swapChainImageViews (a null
\* handle is ignored), as calls in order.
DestroyViewCalls ==
    LET views == SelectSeq(swapChainImageViews, IsHandle)
    IN  [i \in 1 .. Len(views) |-> <<"destroy", views[i]>>]

CreateCalls(handles) == [i \in 1 .. Len(handles) |-> <<"create", handles[i]>>]

\* swapChain.cleanupSwapChain(): the views, then the chain; the members keep
\* their values.
ScCleanup ==
    /\ pc = "client" /\ Len(rcLog) < MaxCalls
    /\ alive' = CleanupSwapChain(alive)
    /\ mlog' = mlog \o DestroyViewCalls \o << <<"destroy", swapChain>> >>
    /\ rcLog' = Append(rcLog, "cleanupSwapChain")
    /\ UNCHANGED <<attach, frames, cycle, destroyLog>>
    /\ UNCHANGED <<ctlVars, appVars, scVars, objVars, gpuVars, envVars>>
    /\ UNCHANGED <<texture, descriptorSets, poolSets, tpc, ncalls, upVars, samplerManager, call>>

\* How a call of SwapChain::recreateSwapChain can end: both creations
\* succeed, vkCreateSwapchainKHR fails and createSwapChain throws, or the
\* first vkCreateImageView fails and createImageViews throws.
RecreateOutcomes == {"ok", "chain_failed", "view_failed"}

\* swapChainImageViews.resize(n): the elements below n are kept, new ones
\* are null.
Resized(views, n) ==
    [i \in 1 .. n |-> IF i <= Len(views) THEN views[i] ELSE NullHandle]

\* swapChain.recreateSwapChain()
ScRecreate ==
    /\ pc = "client" /\ Len(rcLog) < MaxCalls
    /\ \E n \in ImageCounts, r \in RecreateOutcomes :
          CASE r = "ok" ->
                 /\ SwapChainRecreate(n)
                 /\ mlog' = mlog \o << <<"create", NewChain(FreshGen)>> >>
                                 \o CreateCalls(NewViews(FreshGen, n))
                 /\ imgState' = [i \in 0 .. (n - 1) |-> "free"]
                 /\ rcLog' = Append(rcLog, "recreateSwapChain")
            [] r = "chain_failed" ->
                 /\ rcLog' = Append(rcLog, "createSwapChain threw")
                 /\ UNCHANGED <<scVars, alive, mlog, imgState>>
            [] r = "view_failed" ->
                 /\ swapChain' = NewChain(FreshGen)
                 /\ swapChainImages' = n
                 /\ swapChainImageViews' = Resized(swapChainImageViews, n)
                 /\ alive' = alive \cup {NewChain(FreshGen)}
                 /\ mlog' = Append(mlog, <<"create", NewChain(FreshGen)>>)
                 /\ imgState' = [i \in 0 .. (n - 1) |-> "free"]
                 /\ rcLog' = Append(rcLog, "createImageViews threw")
    /\ UNCHANGED <<attach, frames, cycle, destroyLog>>
    /\ UNCHANGED <<fenceSignaled, semSignaled, inFlight, presentQ>>
    /\ UNCHANGED <<ctlVars, appVars, objVars, envVars>>
    /\ UNCHANGED <<texture, descriptorSets, poolSets, tpc, ncalls, upVars, samplerManager, call>>

\* SwapChain::~SwapChain: cleanupImageViews(), vkDestroySwapchainKHR.
ScDestructor ==
    /\ pc = "client"
    /\ pc' = "destroyed"
    /\ alive' = CleanupSwapChain(alive)
    /\ mlog' = mlog \o DestroyViewCalls \o << <<"destroy", swapChain>> >>
    /\ rcLog' = Append(rcLog, "~SwapChain")
    /\ UNCHANGED <<retPc, rcIdx, rcSizeZero, tdIdx>>
    /\ UNCHANGED <<attach, frames, cycle, destroyLog>>
    /\ UNCHANGED <<appVars, scVars, objVars, gpuVars, envVars>>
    /\ UNCHANGED <<texture, descriptorSets, poolSets, tpc, ncalls, upVars, samplerManager, call>>

NextSwapChainLife == ScCleanup \/ ScRecreate \/ ScDestructor

SpecSwapChainLife == InitSwapChain /\ [][NextSwapChainLife]_vars

\* C36 (as claimed): in any sequence of cleanupSwapChain, recreateSwapChain
\* (failing or not) and the destructor, a destroy call on a chain or on an
\* image view is never preceded by another destroy call on the same handle
\* with no creation of it in between.
C36_ChainDestroyedOnce ==
    \A i \in DOMAIN mlog :
       (mlog[i][1] = "destroy" /\ mlog[i][2][1] \in {"swapChain", "imageView"}) =>
          \A j \in 1 .. (i - 1) :
             (mlog[j] = mlog[i]) =>
                \E k \in (j + 1) .. (i - 1) : mlog[k] = <<"create", mlog[i][2]>>

(***************************************************************************)
(* Properties of the frame loop, the recreation and the teardown.          *)
(***************************************************************************)
IsPrefix(s, t) == Len(s) <= Len(t) /\ \A i \in 1 .. Len(s) : s[i] = t[i]
Pos(log, c) == CHOOSE i \in 1 .. Len(log) : log[i] = c

\* C1: no resource is destroyed, by a recreation or by the teardown, while a
\* submission that references it is still executing on the GPU: everything
\* an in-flight submission references is alive.
C1_NoDestroyWhileInFlight == \A f \in inFlight : f.refs \subseteq alive

\* C1 case: the teardown has run after frames were submitted and after a
\* recreation replaced the swap chain.
C1_Witness == pc = "destroyed" /\ frames >= 2 /\ swapChain # NewChain(0)

\* C2 (as claimed): the loop never blocks on a fence that no pending
\* submission will signal: once the surface is no longer stale and the GPU has
\* completed all submitted work, the fence the loop waits on is signaled.
C2_FenceWaitPasses ==
    (pc = "waitFence" /\ ~surfaceStale /\ inFlight = {}) => fenceSignaled[currentFrame]

\* C3: when the acquire reports out-of-date the cycle runs the recreation once,
\* records, submits and presents nothing, leaves the slot index unchanged and
\* returns normally into run().
C3_StaleAcquireAborts ==
    cycle.staleAcquire =>
        /\ InRecreate \/ pc = "afterDraw"
        /\ cycle.recreated = 1
        /\ ~cycle.recorded /\ ~cycle.submitted /\ ~cycle.presented
        /\ currentFrame = cycle.slot
        /\ pc = "afterDraw" => rcLog = recreateSteps

\* C3 case: drawFrame has returned from a cycle whose acquire was stale.
C3_Witness == pc = "afterDraw" /\ cycle.staleAcquire /\ cycle.slot = 1

\* C4: when the present reports out-of-date or suboptimal, or the resize flag
\* is set, the cycle runs the recreation once and then advances the slot.
C4_StalePresentRecreates ==
    /\ cycle.stalePresent => (InRecreate \/ pc \in {"advance", "afterDraw"})
    /\ (pc = "afterDraw" /\ cycle.stalePresent) =>
        /\ cycle.recreated = 1
        /\ cycle.presented
        /\ rcLog = recreateSteps
        /\ currentFrame = (cycle.slot + 1) % MAX_FRAMES_IN_FLIGHT

\* C4 case: drawFrame has returned from a cycle on the last slot whose present
\* was stale; the slot index has wrapped.
C4_Witness == pc = "afterDraw" /\ cycle.stalePresent /\ cycle.slot = 1

\* C5: the slot index stays in 0 .. MAX_FRAMES_IN_FLIGHT - 1 and, outside the
\* tail of drawFrame between the present and the advance, equals the number
\* of presented cycles modulo MAX_FRAMES_IN_FLIGHT.
C5_SlotIndexCycles ==
    /\ currentFrame \in 0 .. (MAX_FRAMES_IN_FLIGHT - 1)
    /\ ~(pc = "advance" \/ (InRecreate /\ retPc = "advance"))
          => currentFrame = frames % MAX_FRAMES_IN_FLIGHT

\* C5 case: three cycles were presented and the index has wrapped to 1.
C5_Witness == frames = 3 /\ currentFrame = 1 /\ pc = "loop"

\* C6: at most MAX_FRAMES_IN_FLIGHT submissions are in flight, and no two of
\* them use the same slot.
C6_BoundedInFlight ==
    /\ Cardinality(inFlight) <= MAX_FRAMES_IN_FLIGHT
    /\ \A f, g \in inFlight : f.slot = g.slot => f = g

\* C6 case: every slot has a submission in flight and the loop is held at the
\* fence of the slot it wants to reuse.
C6_Witness ==
    /\ Cardinality(inFlight) = MAX_FRAMES_IN_FLIGHT
    /\ pc = "waitFence" /\ ~fenceSignaled[currentFrame]

\* C7 (handles): each submission of slot s waits on image-available[s], the
\* semaphore given to the acquire of its cycle, and signals render-finished[s]
\* and the fence of s; the present of the cycle waits on render-finished[s].
C7_Handles ==
    /\ \A f \in inFlight :
        /\ f.wait = ImageAvailable(f.slot)
        /\ f.signal = RenderFinished(f.slot)
        /\ f.fence = InFlightFence(f.slot)
    /\ \A p \in presentQ : p.wait = RenderFinished(p.slot)
    /\ cycle.acqSem # <<>> => cycle.acqSem = ImageAvailable(cycle.slot)
    /\ cycle.submitted =>
          \A f \in inFlight : f.slot = cycle.slot => f.wait = cycle.acqSem

\* C7 (order): the GPU executes a submission only once its image is acquired
\* and the acquire semaphore is signaled; a present request is executed only
\* once the submission of its cycle has finished.
C7_Order ==
    /\ \A f \in inFlight : f \notin inFlight' =>
          /\ semSignaled[ImageAvailable(f.slot)]
          /\ imgState[f.image] # "free"
    /\ \A p \in presentQ : p \notin presentQ' =>
          \A f \in inFlight : f.id # p.id

\* C7: the semaphore and fence chain of a cycle, and the order it enforces.
C7_SyncChain == [](C7_Handles) /\ [][C7_Order]_vars

\* C7 case: the present of a cycle is queued while the submission of the same
\* cycle is still executing.
C7_Witness == \E p \in presentQ : \E f \in inFlight : f.id = p.id /\ f.slot = 1

\* C34 (as claimed): no submission signals render-finished[s] while the
\* present request of an earlier cycle of slot s still waits on that
\* semaphore, and no acquire is given image-available[s] while it is signaled.
C34_SemaphoreReuse ==
    /\ \A f \in inFlight : \A p \in presentQ : p.wait = f.signal => p.id = f.id
    /\ pc = "acquire" => ~semSignaled[AcquireSemaphore(currentFrame)]

\* C37: whenever drawFrame is about to record a command buffer, there are as
\* many framebuffers as image views and as images of the current chain, and
\* the acquired image index is below that number.
C37_FramebufferCount ==
    pc = "record" =>
        /\ Len(framebuffers) = Len(swapChainImageViews)
        /\ Len(framebuffers) = swapChainImages
        /\ imageIndex \in 0 .. (swapChainImages - 1)

\* C37 case: a command buffer is recorded for the third image of a chain that
\* a recreation made.
C37_Witness ==
    /\ pc = "record" /\ swapChain # NewChain(0)
    /\ swapChainImages = 3 /\ imageIndex = 2

\* C38 (as claimed): recreateSwapChain goes on to the device-idle wait and
\* to destroying and creating only after it has read a non-zero size, and it
\* waits for window events only while the size it has read is zero.
C38_WaitsOnlyWhileZero ==
    /\ pc = "rc_body" => ~rcSizeZero
    /\ pc = "rc_waitEvents" => rcSizeZero

\* C8: a recreation runs its steps in the order wait-idle, destroy
\* framebuffers, destroy views and chain, create chain and views, create
\* framebuffers from the new views, free and reallocate the command buffers;
\* a live framebuffer never references a destroyed image view.
C8_RecreateOrder ==
    /\ IsPrefix(rcLog, << "vkDeviceWaitIdle", "destroyFramebuffers", "cleanupSwapChain",
                          "recreateSwapChain", "createFrameBuffers",
                          "vkFreeCommandBuffers", "createCommandBuffers" >>)
    /\ \A a \in attach : a[1] \in alive => a[2] \in alive
    /\ RecreateDone =>
          /\ Len(rcLog) = 7
          /\ swapChain \in alive
          /\ Len(framebuffers) = Len(swapChainImageViews)
          /\ \A i \in 1 .. Len(framebuffers) :
                /\ framebuffers[i] \in alive
                /\ <<framebuffers[i], swapChainImageViews[i]>> \in attach
          /\ Len(commandBuffers) = MAX_FRAMES_IN_FLIGHT
          /\ Range(commandBuffers) \subseteq alive

\* C8 case: a recreation that followed submitted frames has run to its end.
C8_Witness == RecreateDone /\ frames >= 1

\* C9 (as claimed): after any number of recreateSwapChain() calls exactly one
\* chain and one set of image views created by the object is alive.
C9_OneChainAlive ==
    (Len(rcLog) > 0 /\ rcLog[Len(rcLog)] = "recreateSwapChain") =>
        /\ {h \in alive : h[1] = swapChain[1]} = {swapChain}
        /\ {h \in alive : h[1] = swapChainImageViews[1][1]}
              = Range(swapChainImageViews)

\* Position-wise order of two groups of components in the teardown so far.
Before(A, B) ==
    \A a \in A, b \in B :
        (\E i \in 1 .. Len(destroyLog) : destroyLog[i] = b) =>
            /\ \E i \in 1 .. Len(destroyLog) : destroyLog[i] = a
            /\ Pos(destroyLog, a) < Pos(destroyLog, b)

loopVars == <<ctlVars, appVars, scVars, objVars, gpuVars, envVars, obsVars>>

InitClient ==
    /\ InitManagers
    /\ pc = "client"
    /\ retPc = "none"
    /\ rcIdx = 0
    /\ rcSizeZero = FALSE
    /\ tdIdx = 1
    /\ currentFrame = 0
    /\ framebufferResized = FALSE
    /\ imageIndex = 0
    /\ \E n \in ImageCounts : InitDevice(n)
    /\ surfaceStale = FALSE
    /\ events = {}
    /\ shouldClose = FALSE
    /\ windowZero = FALSE
    /\ frames = 0
    /\ cycle = NoCycle
    /\ rcLog = <<>>
    /\ destroyLog = <<>>

\* What locking a std::mutex the calling thread already owns may do: the
\* behaviour is undefined; builds block forever, throw std::system_error, or
\* carry on.
RelockOutcomes == {"deadlock", "system_error", "proceeds"}

\* TextureManager::reloadTexture(newImagePath): std::lock_guard lock(textureMutex)
BeginReloadTexture(path) ==
    /\ tpc = "idle"
    /\ texture.textureMutex = "free"
    /\ texture' = [texture EXCEPT !.textureMutex = "held"]
    /\ tpc' = <<"rt_release", path>>
    /\ ncalls' = ncalls + 1
    /\ mlog' = Append(mlog, <<"reloadTexture", path>>)
    /\ UNCHANGED <<descriptorSets, poolSets>>

ClientReloadTexture ==
    /\ pc = "client" /\ ncalls < MaxCalls
    /\ \E path \in ImagePaths : BeginReloadTexture(path)
    /\ UNCHANGED <<loopVars, upVars, call, samplerManager, devVars>>

\* reloadTexture: vmaDestroyImage and vkDestroyImageView of the non-null
\* members, which are set to VK_NULL_HANDLE; imagePath = newImagePath.
RtReleaseOld ==
    /\ tpc # "idle" /\ tpc[1] = "rt_release"
    /\ LET old == <<texture.textureImage, texture.textureImageView>>
           gone == SelectSeq(old, LAMBDA h : h # NullHandle)
       IN  /\ alive' = alive \ Range(gone)
           /\ mlog' = mlog \o [i \in 1 .. Len(gone) |-> <<"destroy", gone[i]>>]
    /\ texture' = [texture EXCEPT !.textureImage = NullHandle,
                                  !.textureImageView = NullHandle,
                                  !.imagePath = tpc[2]]
    /\ tpc' = <<"rt_createImage", tpc[2]>>
    /\ UNCHANGED <<attach, descriptorSets, poolSets, ncalls, loopVars, upVars, call, samplerManager>>

\* reloadTexture: createTextureImage() blocks on textureMutex, which the
\* caller holds.
RtRelockDeadlock ==
    /\ tpc # "idle" /\ tpc[1] = "rt_createImage"
    /\ texture.textureMutex = "held" /\ "deadlock" \in RelockOutcomes
    /\ tpc' = <<"rt_deadlock", tpc[2]>>
    /\ UNCHANGED <<texture, descriptorSets, poolSets, mlog, ncalls, loopVars, upVars, call, samplerManager, devVars>>

\* reloadTexture: the second lock throws; the exception leaves reloadTexture,
\* whose lock_guard releases the mutex.
RtRelockThrows ==
    /\ tpc # "idle" /\ tpc[1] = "rt_createImage"
    /\ texture.textureMutex = "held" /\ "system_error" \in RelockOutcomes
    /\ texture' = [texture EXCEPT !.textureMutex = "free"]
    /\ tpc' = <<"rt_threw", tpc[2]>>
    /\ mlog' = Append(mlog, <<"throw", "std::system_error">>)
    /\ UNCHANGED <<descriptorSets, poolSets, ncalls, loopVars, upVars, call, samplerManager, devVars>>

\* createTextureImage(): the members are null, so the image at imagePath is
\* loaded, uploaded through a staging buffer, and textureImage is set.
RtCreateTextureImage ==
    /\ tpc # "idle" /\ tpc[1] = "rt_createImage"
    /\ texture.textureMutex = "free" \/ "proceeds" \in RelockOutcomes
    /\ texture.textureImage = NullHandle
    /\ texture' = [texture EXCEPT !.textureImage = H("textureImage", FreshGen, 0),
                                  !.pixels = texture.imagePath,
                                  !.textureMutex = "free"]
    /\ alive' = alive \cup {H("textureImage", FreshGen, 0)}
    /\ mlog' = Append(mlog, <<"create", H("textureImage", FreshGen, 0)>>)
    /\ tpc' = <<"rt_createView", tpc[2]>>
    /\ UNCHANGED <<attach, descriptorSets, poolSets, ncalls, loopVars, upVars, call, samplerManager>>

\* createTextureImageView(): textureImageView is null, a view is created.
RtCreateTextureImageView ==
    /\ tpc # "idle" /\ tpc[1] = "rt_createView"
    /\ texture.textureImageView = NullHandle
    /\ texture' = [texture EXCEPT !.textureImageView = NewTextureView(texture.textureImage)]
    /\ alive' = alive \cup {NewTextureView(texture.textureImage)}
    /\ mlog' = Append(mlog, <<"create", NewTextureView(texture.textureImage)>>)
    /\ tpc' = <<"rt_return", tpc[2]>>
    /\ UNCHANGED <<attach, descriptorSets, poolSets, ncalls, loopVars, upVars, call, samplerManager>>

\* reloadTexture returns; its lock_guard releases the mutex.
RtReturn ==
    /\ tpc # "idle" /\ tpc[1] = "rt_return"
    /\ texture' = [texture EXCEPT !.textureMutex = "free"]
    /\ tpc' = "idle"
    /\ mlog' = Append(mlog, <<"return", "reloadTexture">>)
    /\ UNCHANGED <<descriptorSets, poolSets, ncalls, loopVars, upVars, call, samplerManager, devVars>>

\* What vkAllocateDescriptorSets may return for MAX_FRAMES_IN_FLIGHT more sets
\* from a pool created with maxSets = MAX_FRAMES_IN_FLIGHT and never reset:
\* beyond maxSets the allocation may fail, or the driver may have room.
PoolMaxSets == MAX_FRAMES_IN_FLIGHT
AllocateOutcomes ==
    IF poolSets + MAX_FRAMES_IN_FLIGHT <= PoolMaxSets
    THEN {"VK_SUCCESS"}
    ELSE {"VK_ERROR_OUT_OF_POOL_MEMORY", "VK_SUCCESS"}

NullSets ==
    [i \in 1 .. MAX_FRAMES_IN_FLIGHT |->
        [buffer |-> NullHandle, imageView |-> NullHandle, sampler |-> NullHandle]]

\* descriptorManager->createDescriptorSets(uniformBuffers, view, sampler) with
\* the texture's current view and sampler: allocate, then write each set; a
\* failed allocation nulls the handles and throws.
ClientCreateDescriptorSets ==
    /\ pc = "client" /\ tpc = "idle" /\ ncalls < MaxCalls
    /\ \E r \in AllocateOutcomes :
        /\ descriptorSets' = IF r = "VK_SUCCESS"
                             THEN WrittenSets(texture.textureImageView,
                                              texture.textureSampler)
                             ELSE NullSets
        /\ poolSets' = IF r = "VK_SUCCESS" THEN poolSets + MAX_FRAMES_IN_FLIGHT
                                           ELSE poolSets
        /\ mlog' = Append(mlog, <<"createDescriptorSets", r>>)
    /\ ncalls' = ncalls + 1
    /\ UNCHANGED <<texture, tpc, loopVars, upVars, call, samplerManager, devVars>>

(***************************************************************************)
(* SamplerManager.                                                         *)
(***************************************************************************)
\* Keys a client passes to createSampler, in the order the destructor visits
\* the map.
SamplerKeys == <<"default", "linear">>

\* Every sampler vkCreateSampler has returned, the constructor's included.
SamplersCreated ==
    {Sampler} \cup {mlog[i][2] : i \in {j \in DOMAIN mlog : mlog[j][1] = "createSampler"}}

\* SamplerManager::createSampler(samplerKey): vkCreateSampler, then
\* samplers[samplerKey] = sampler, whatever the map held for the key.
ClientCreateSampler ==
    /\ pc = "client" /\ tpc = "idle" /\ ncalls < MaxCalls
    /\ ~samplerManager.destroyed
    /\ \E key \in Range(SamplerKeys) :
         LET sampler == H("sampler", Cardinality(SamplersCreated), 0)
         IN  /\ alive' = alive \cup {sampler}
             /\ samplerManager' =
                  [samplerManager EXCEPT !.samplers = (key :> sampler) @@ @]
             /\ mlog' = Append(mlog, <<"createSampler", sampler, key>>)
    /\ ncalls' = ncalls + 1
    /\ UNCHANGED <<texture, descriptorSets, poolSets, tpc, attach, loopVars, upVars, call>>

\* SamplerManager::~SamplerManager: vkDestroySampler of every value of the map.
ClientDestroySamplerManager ==
    /\ pc = "client" /\ tpc = "idle"
    /\ ~samplerManager.destroyed
    /\ LET keys == SelectSeq(SamplerKeys, LAMBDA k : k \in DOMAIN samplerManager.samplers)
       IN  /\ alive' = alive \ {samplerManager.samplers[k] : k \in Range(keys)}
           /\ mlog' = mlog \o [i \in 1 .. Len(keys) |->
                                  <<"destroy", samplerManager.samplers[keys[i]]>>]
    /\ samplerManager' = [samplerManager EXCEPT !.destroyed = TRUE]
    /\ UNCHANGED <<texture, descriptorSets, poolSets, tpc, ncalls, attach, loopVars, upVars, call>>

NextManagers ==
    \/ ClientReloadTexture
    \/ ClientCreateDescriptorSets
    \/ ClientCreateSampler
    \/ ClientDestroySamplerManager
    \/ RtReleaseOld \/ RtRelockDeadlock \/ RtRelockThrows
    \/ RtCreateTextureImage \/ RtCreateTextureImageView \/ RtReturn

SpecManagers == InitClient /\ [][NextManagers]_vars

\* No handle is destroyed twice: the last thing the managers did to a handle
\* before destroying it was to create it (or nothing, for a handle of Init).
DestroyedOnce ==
    \A i \in 1 .. Len(mlog) : mlog[i][1] = "destroy" =>
        LET prev == {j \in 1 .. (i - 1) : mlog[j][1] \in {"create", "destroy"}
                                            /\ mlog[j][2] = mlog[i][2]}
        IN  prev = {} \/ mlog[CHOOSE j \in prev : \A k \in prev : k <= j][1] = "create"

\* C12 (as claimed): reloadTexture with a loadable image always terminates and
\* returns: the call never blocks on textureMutex and never fails.
C12_ReloadReturns == tpc = "idle" \/ tpc[1] \notin {"rt_deadlock", "rt_threw"}

\* C12 (the rest, which holds): whenever reloadTexture does return, the
\* texture holds a live image and view for the new path, every handle the
\* manager destroyed was destroyed once, and the sampler is unchanged.
C12_ReloadReplaces ==
    /\ DestroyedOnce
    /\ texture.textureSampler = Sampler
    /\ (Len(mlog) > 0 /\ mlog[Len(mlog)] = <<"return", "reloadTexture">>) =>
          /\ {texture.textureImage, texture.textureImageView} \subseteq alive
          /\ texture.pixels = texture.imagePath
          /\ ImageOf(texture.textureImageView) = texture.textureImage

(***************************************************************************)
(* The run loop with reloadTexture calls made while it runs.               *)
(***************************************************************************)
\* Another thread calls textureManager->reloadTexture(path) during run().
AppReloadTexture ==
    /\ WindowOpen /\ ncalls < MaxReloads
    /\ \E path \in {"b.png"} : BeginReloadTexture(path)
    /\ UNCHANGED <<loopVars, upVars, call, samplerManager, devVars>>

\* Frame cycles on a surface that stays as it is, and the reload.
NextReload ==
    \/ GpuComplete \/ PresentComplete
    \/ RunLoop \/ PollEvents \/ WaitForFences \/ ResetFences
    \/ AcquireImage \/ UpdateUniformBuffer \/ RecordCommandBuffer
    \/ QueueSubmit \/ PresentOk \/ AdvanceFrame \/ RunNotResized
    \/ AppReloadTexture
    \/ RtReleaseOld \/ RtRelockDeadlock \/ RtRelockThrows
    \/ RtCreateTextureImage \/ RtCreateTextureImageView \/ RtReturn

SpecReload == Init /\ [][NextReload]_vars

TextureKinds == {"textureImage", "textureImageView"}

\* C13 (as claimed): whatever the interleaving of reloadTexture with the frame
\* cycles, no frame in flight references a texture image or view that has been
\* destroyed, and no command buffer is recorded against one.
C13_NoFrameUsesDestroyedTexture ==
    /\ \A f \in inFlight : \A h \in f.refs : h[1] \in TextureKinds => h \in alive
    /\ pc = "submit" =>
          \A h \in cbContent[currentFrame][1].refs : h[1] \in TextureKinds => h \in alive

\* C14 (as claimed): every createDescriptorSets call after construction
\* succeeds and the descriptor pool is never asked for more than it holds.
C14_RebuildSucceeds ==
    /\ poolSets <= PoolMaxSets
    /\ \A i \in 1 .. Len(mlog) :
          mlog[i][1] = "createDescriptorSets" => mlog[i][2] = "VK_SUCCESS"

\* C14 (the rest, which holds): after a call that succeeded, set i binds
\* uniformBuffers[i] and the supplied view and sampler.
C14_RebuildWrites ==
    (Len(mlog) > 0 /\ mlog[Len(mlog)] = <<"createDescriptorSets", "VK_SUCCESS">>) =>
        \A i \in 1 .. MAX_FRAMES_IN_FLIGHT :
            /\ descriptorSets[i].buffer = UniformBuffer(i - 1)
            /\ descriptorSets[i].imageView = texture.textureImageView
            /\ descriptorSets[i].sampler = texture.textureSampler

CloseMade == shouldClose \/ "close" \in events
RunReturned == pc \in {"returned", "destroyResources", "destroyed"}

\* C11 (as claimed): once a close request has been made run() eventually
\* returns, whatever the window state (the frame budget of the model aside).
C11_CloseLeadsToReturn == CloseMade ~> (RunReturned \/ frames = MaxFrames)

\* C11 (device-idle wait): run() returns only with both queues idle, and it
\* starts no frame cycle after the loop has ended.
C11_IdleAtReturn == RunReturned => (DeviceIdle /\ shouldClose)


(***************************************************************************)
(* Construction of TextureManager and BufferManager: the one-shot uploads, *)
(* each call that can fail failing or not.                                 *)
(***************************************************************************)
\* VulkanApplication's constructor just before make_unique<TextureManager>:
\* instance, devices, allocator, swap chain, command buffers and the
\* "default" sampler exist; nothing has been uploaded.
InitUpload ==
    /\ pc = "constructing"
    /\ retPc = "none"
    /\ rcIdx = 0
    /\ rcSizeZero = FALSE
    /\ tdIdx = 1
    /\ currentFrame = 0
    /\ framebufferResized = FALSE
    /\ imageIndex = 0
    /\ swapChain = NewChain(0)
    /\ swapChainImages = 2
    /\ swapChainImageViews = NewViews(0, 2)
    /\ framebuffers = <<>>
    /\ attach = {}
    /\ commandBuffers = NewCommandBuffers(0)
    /\ cbContent = [s \in Slots |-> <<>>]
    /\ alive = Range(NewCommandBuffers(0)) \cup SyncObjects \cup Range(NewViews(0, 2))
                 \cup {CommandPool, Sampler, Allocator, NewChain(0), Device,
                       PhysicalDevice, Surface, Instance}
    /\ fenceSignaled = [s \in Slots |-> createFence(s)]
    /\ semSignaled = [h \in {ImageAvailable(s) : s \in Slots}
                            \cup {RenderFinished(s) : s \in Slots} |-> FALSE]
    /\ inFlight = {}
    /\ presentQ = {}
    /\ imgState = [i \in 0 .. 1 |-> "free"]
    /\ surfaceStale = FALSE
    /\ events = {}
    /\ shouldClose = FALSE
    /\ windowZero = FALSE
    /\ frames = 0
    /\ cycle = NoCycle
    /\ rcLog = <<>>
    /\ destroyLog = <<>>
    /\ texture = [textureImage |-> NullHandle, textureImageView |-> NullHandle,
                  textureSampler |-> NullHandle, textureMutex |-> "free",
                  imagePath |-> "a.png", pixels |-> "none",
                  layout |-> "UNDEFINED"]
    /\ descriptorSets = <<>>
    /\ poolSets = 0
    /\ tpc = "idle"
    /\ mlog = <<>>
    /\ ncalls = 0
    /\ \E v \in Payloads, x \in Payloads :
          bufferManager = [vertices |-> v, indices |-> x,
                           vertexBuffer |-> Indeterminate, indexBuffer |-> Indeterminate,
                           uniformBuffers |-> <<>>, uniformBuffersMapped |-> <<>>]
    /\ bufferData = <<>>
    /\ staging = NullHandle
    /\ copyQ = NullHandle
    /\ upc = At("createTextureImage", "staging")
    /\ uplog = <<>>
    /\ call = NoCall
    /\ samplerManager = [samplers |-> ("default" :> Sampler), destroyed |-> FALSE]

WithoutBuffers(data, hs) == [h \in DOMAIN data \ hs |-> data[h]]

\* The statement that follows a call of op in its constructor.  TextureManager's
\* constructor goes on to the view and the sampler, and VulkanApplication's
\* constructor to BufferManager's; BufferManager's constructor calls the three
\* create functions one after the other and drops what they return.
AfterCall(op) ==
    CASE op = "createTextureImage"   -> At("createVertexBuffer", "staging")
      [] op = "createVertexBuffer"   -> At("createIndexBuffer", "staging")
      [] op = "createIndexBuffer"    -> <<"createUniformBuffers", "create", 0>>
      [] op = "createUniformBuffers" -> Constructed

BufferOps == {"createVertexBuffer", "createIndexBuffer"}
SourceOf(op) ==
    IF op = "createVertexBuffer" THEN bufferManager.vertices ELSE bufferManager.indices
DestinationOf(op) ==
    IF op = "createVertexBuffer" THEN VertexBuffer ELSE IndexBuffer
WithDestination(op, h) ==
    IF op = "createVertexBuffer"
    THEN [bufferManager EXCEPT !.vertexBuffer = h]
    ELSE [bufferManager EXCEPT !.indexBuffer = h]

\* return false / return true of a create function of BufferManager.
Returns(op, result, log) ==
    /\ upc' = AfterCall(op)
    /\ uplog' = log \o << <<"return", op, result>> >>

\* allocatorManager.destroyBuffer(stagingBuffer, stagingBufferAllocation)
DestroyStaging ==
    /\ alive' = alive \ {staging}
    /\ bufferData' = WithoutBuffers(bufferData, {staging})
    /\ staging' = NullHandle

\* createVertexBuffer / createIndexBuffer, step 1: the staging buffer; a
\* failed createBuffer is caught and the function returns false.
CreateStaging(op) ==
    /\ upc = At(op, "staging")
    /\ \E ok \in BOOLEAN :
          IF ok
          THEN /\ alive' = alive \cup {StagingBuffer(op)}
               /\ staging' = StagingBuffer(op)
               /\ bufferData' = (StagingBuffer(op) :> Blank(Len(SourceOf(op)))) @@ bufferData
               /\ upc' = At(op, "map")
               /\ UNCHANGED uplog
          ELSE /\ Returns(op, FALSE, Append(uplog, <<"failed", op, "staging">>))
               /\ UNCHANGED <<alive, staging, bufferData>>
    /\ UNCHANGED <<bufferManager, copyQ, attach, loopVars>>
    /\ UNCHANGED <<texture, descriptorSets, poolSets, tpc, mlog, ncalls, samplerManager, call>>

\* Step 2: mapMemory, memcpy of the payload, unmapMemory; a failed mapMemory
\* is caught, the staging buffer destroyed, and the function returns false.
MapStaging(op) ==
    /\ upc = At(op, "map")
    /\ \E ok \in BOOLEAN :
          IF ok
          THEN /\ bufferData' = [bufferData EXCEPT ![staging] = SourceOf(op)]
               /\ upc' = At(op, "destination")
               /\ UNCHANGED <<alive, staging, uplog>>
          ELSE /\ DestroyStaging
               /\ Returns(op, FALSE, Append(uplog, <<"failed", op, "map">>))
    /\ UNCHANGED <<bufferManager, copyQ, attach, loopVars>>
    /\ UNCHANGED <<texture, descriptorSets, poolSets, tpc, mlog, ncalls, samplerManager, call>>

\* Step 3: the device-local buffer, stored in the member; a failed
\* createBuffer is caught, the staging buffer destroyed, false returned.
CreateDestination(op) ==
    /\ upc = At(op, "destination")
    /\ \E ok \in BOOLEAN :
          IF ok
          THEN /\ alive' = alive \cup {DestinationOf(op)}
               /\ bufferData' = (DestinationOf(op) :> Blank(Len(SourceOf(op)))) @@ bufferData
               /\ bufferManager' = WithDestination(op, DestinationOf(op))
               /\ upc' = At(op, "copy")
               /\ UNCHANGED <<staging, uplog>>
          ELSE /\ DestroyStaging
               /\ Returns(op, FALSE, Append(uplog, <<"failed", op, "destination">>))
               /\ UNCHANGED bufferManager
    /\ UNCHANGED <<copyQ, attach, loopVars>>
    /\ UNCHANGED <<texture, descriptorSets, poolSets, tpc, mlog, ncalls, samplerManager, call>>

\* Step 4, AllocatorManager::copyBuffer up to vkQueueSubmit: the results of
\* vkAllocateCommandBuffers and vkQueueSubmit are dropped, so when one of
\* them fails no copy reaches the queue and the function carries on.
CopyBuffer(op) ==
    /\ upc = At(op, "copy")
    /\ \E ok \in BOOLEAN :
          IF ok
          THEN /\ copyQ' = [src |-> staging, dst |-> DestinationOf(op),
                            size |-> Len(SourceOf(op))]
               /\ UNCHANGED uplog
          ELSE /\ uplog' = Append(uplog, <<"failed", op, "copy">>)
               /\ UNCHANGED copyQ
    /\ upc' = At(op, "waitIdle")
    /\ UNCHANGED <<bufferManager, bufferData, staging, devVars, loopVars>>
    /\ UNCHANGED <<texture, descriptorSets, poolSets, tpc, mlog, ncalls, samplerManager, call>>

\* The queue executes vkCmdCopyBuffer: size bytes from src to dst.
GpuCopyBuffer ==
    /\ copyQ # NullHandle /\ "src" \in DOMAIN copyQ /\ copyQ.dst[1] # "textureImage"
    /\ bufferData' = [bufferData EXCEPT ![copyQ.dst] = SubSeq(bufferData[copyQ.src], 1, copyQ.size)]
    /\ copyQ' = NullHandle
    /\ UNCHANGED <<bufferManager, staging, upc, uplog, devVars, loopVars>>
    /\ UNCHANGED <<texture, descriptorSets, poolSets, tpc, mlog, ncalls, samplerManager, call>>

\* copyBuffer and submitSingleTimeCommandBuffer: vkQueueWaitIdle returns when
\* the queue has nothing left to run; the command buffer is freed and the
\* function returns.
CopyWaitIdle(op) ==
    /\ upc = At(op, "waitIdle")
    /\ copyQ = NullHandle
    /\ upc' = At(op, "destroyStaging")
    /\ UNCHANGED <<bufferManager, bufferData, staging, copyQ, uplog, devVars, loopVars>>
    /\ UNCHANGED <<texture, descriptorSets, poolSets, tpc, mlog, ncalls, samplerManager, call>>

\* Step 5: the staging buffer is destroyed; return true.
FinishUpload(op) ==
    /\ upc = At(op, "destroyStaging")
    /\ DestroyStaging
    /\ Returns(op, TRUE, uplog)
    /\ UNCHANGED <<bufferManager, copyQ, attach, loopVars>>
    /\ UNCHANGED <<texture, descriptorSets, poolSets, tpc, mlog, ncalls, samplerManager, call>>

\* createUniformBuffers, iteration i: createBuffer and mapMemory of
\* uniformBuffers[i].  A failed createBuffer destroys the buffers before i, a
\* failed mapMemory those up to i; the vector keeps the destroyed handles and
\* the function returns false.
UniformOutcomes == {"ok", "create_failed", "map_failed"}
CreateUniformBuffer ==
    /\ upc \in {<<"createUniformBuffers", "create", i>> : i \in Slots}
    /\ LET i == upc[3]
           before == {UniformBuffer(j) : j \in 0 .. (i - 1)}
           resized == IF i = 0 THEN NullBuffers ELSE bufferManager.uniformBuffers
           mapped == IF i = 0 THEN [j \in 1 .. MAX_FRAMES_IN_FLIGHT |-> FALSE]
                     ELSE bufferManager.uniformBuffersMapped
       IN  \E r \in UniformOutcomes :
             CASE r = "ok" ->
                    /\ alive' = alive \cup {UniformBuffer(i)}
                    /\ UNCHANGED mlog
                    /\ bufferManager' =
                         [bufferManager EXCEPT
                            !.uniformBuffers = [resized EXCEPT ![i + 1] = UniformBuffer(i)],
                            !.uniformBuffersMapped = [mapped EXCEPT ![i + 1] = TRUE]]
                    /\ IF i + 1 < MAX_FRAMES_IN_FLIGHT
                       THEN upc' = <<"createUniformBuffers", "create", i + 1>> /\ UNCHANGED uplog
                       ELSE Returns("createUniformBuffers", TRUE, uplog)
               [] r = "create_failed" ->
                    /\ alive' = alive \ before
                    /\ mlog' = mlog \o [j \in 1 .. i |-> <<"destroy", UniformBuffer(j - 1)>>]
                    /\ bufferManager' = [bufferManager EXCEPT !.uniformBuffers = resized,
                                                              !.uniformBuffersMapped = mapped]
                    /\ Returns("createUniformBuffers", FALSE,
                               Append(uplog, <<"failed", "createUniformBuffers", "create">>))
               [] r = "map_failed" ->
                    /\ alive' = alive \ before
                    /\ mlog' = mlog \o [j \in 1 .. (i + 1) |-> <<"destroy", UniformBuffer(j - 1)>>]
                    /\ bufferManager' =
                         [bufferManager EXCEPT
                            !.uniformBuffers = [resized EXCEPT ![i + 1] = UniformBuffer(i)],
                            !.uniformBuffersMapped = mapped]
                    /\ Returns("createUniformBuffers", FALSE,
                               Append(uplog, <<"failed", "createUniformBuffers", "map">>))
    /\ UNCHANGED <<bufferData, staging, copyQ, attach, loopVars>>
    /\ UNCHANGED <<texture, descriptorSets, poolSets, tpc, ncalls, samplerManager, call>>

\* `member != VK_NULL_HANDLE` as ~BufferManager evaluates it: a member that
\* was never assigned holds an indeterminate value, which may or may not
\* compare equal to VK_NULL_HANDLE.
NotNull(member) ==
    IF member = Indeterminate THEN BOOLEAN ELSE {member # NullHandle}

Destroyed == At("destroyed", "")

\* BufferManager::~BufferManager: every uniformBuffers[i] that is not
\* VK_NULL_HANDLE is destroyed, then vertexBuffer and indexBuffer if they are
\* not VK_NULL_HANDLE.
DestroyBufferManager ==
    /\ upc = Constructed
    /\ \E v \in NotNull(bufferManager.vertexBuffer), x \in NotNull(bufferManager.indexBuffer) :
          LET uniform == SelectSeq(bufferManager.uniformBuffers, IsHandle)
              members == uniform \o (IF v THEN <<bufferManager.vertexBuffer>> ELSE <<>>)
                                 \o (IF x THEN <<bufferManager.indexBuffer>> ELSE <<>>)
          IN  /\ mlog' = mlog \o [j \in 1 .. Len(members) |-> <<"destroy", members[j]>>]
              /\ alive' = alive \ Range(members)
              /\ bufferData' = WithoutBuffers(bufferData, Range(members))
    /\ upc' = Destroyed
    /\ UNCHANGED <<bufferManager, staging, copyQ, uplog, attach, loopVars>>
    /\ UNCHANGED <<texture, descriptorSets, poolSets, tpc, ncalls, samplerManager, call>>

\* An exception leaves createTextureImage and the constructors that called
\* it; nothing on its way destroys the local stagingBuffer.
Throws(log) ==
    /\ upc' = Threw
    /\ uplog' = log \o << <<"throw", "createTextureImage", FALSE>> >>

\* TextureManager::createTextureImage with null members: the image file is
\* loaded and createBuffer makes the staging buffer, or throws.
TexCreateStaging ==
    /\ upc = At("createTextureImage", "staging")
    /\ \E ok \in BOOLEAN :
          IF ok
          THEN /\ alive' = alive \cup {StagingBuffer("createTextureImage")}
               /\ staging' = StagingBuffer("createTextureImage")
               /\ bufferData' = (StagingBuffer("createTextureImage") :> "unwritten") @@ bufferData
               /\ upc' = At("createTextureImage", "map")
               /\ UNCHANGED uplog
          ELSE /\ Throws(Append(uplog, <<"failed", "createTextureImage", "staging">>))
               /\ UNCHANGED <<alive, staging, bufferData>>
    /\ UNCHANGED <<bufferManager, copyQ, attach, loopVars>>
    /\ UNCHANGED <<texture, descriptorSets, poolSets, tpc, mlog, ncalls, samplerManager, call>>

\* createTextureImage: vmaMapMemory, memcpy of the pixels, vmaUnmapMemory; a
\* failed vmaMapMemory throws.
TexMapStaging ==
    /\ upc = At("createTextureImage", "map")
    /\ \E ok \in BOOLEAN :
          IF ok
          THEN /\ bufferData' = [bufferData EXCEPT ![staging] = texture.imagePath]
               /\ upc' = At("createTextureImage", "destination")
               /\ UNCHANGED uplog
          ELSE /\ Throws(Append(uplog, <<"failed", "createTextureImage", "map">>))
               /\ UNCHANGED bufferData
    /\ UNCHANGED <<bufferManager, staging, copyQ, devVars, loopVars>>
    /\ UNCHANGED <<texture, descriptorSets, poolSets, tpc, mlog, ncalls, samplerManager, call>>

\* createTextureImage: createImage sets textureImage, or throws.
TexCreateImage ==
    /\ upc = At("createTextureImage", "destination")
    /\ \E ok \in BOOLEAN :
          IF ok
          THEN /\ alive' = alive \cup {TextureImage}
               /\ texture' = [texture EXCEPT !.textureImage = TextureImage,
                                             !.layout = "UNDEFINED"]
               /\ mlog' = Append(mlog, <<"create", TextureImage>>)
               /\ upc' = At("createTextureImage", "toTransferDst")
               /\ UNCHANGED uplog
          ELSE /\ Throws(Append(uplog, <<"failed", "createTextureImage", "destination">>))
               /\ UNCHANGED <<alive, texture, mlog>>
    /\ UNCHANGED <<bufferManager, bufferData, staging, copyQ, attach, loopVars>>
    /\ UNCHANGED <<descriptorSets, poolSets, tpc, ncalls, samplerManager, call>>

\* TextureManager::submitSingleTimeCommandBuffer, up to vkQueueSubmit: the
\* command is queued, or the submission fails and its result is dropped.
SubmitSingleTime(step, command) ==
    /\ upc = At("createTextureImage", step)
    /\ \E ok \in BOOLEAN :
          IF ok
          THEN /\ copyQ' = command
               /\ UNCHANGED uplog
          ELSE /\ uplog' = Append(uplog, <<"failed", "createTextureImage", step>>)
               /\ UNCHANGED copyQ
    /\ upc' = <<"createTextureImage", step, 1>>
    /\ UNCHANGED <<bufferManager, bufferData, staging, devVars, loopVars>>
    /\ UNCHANGED <<texture, descriptorSets, poolSets, tpc, mlog, ncalls, samplerManager, call>>

\* transitionImageLayout(textureImage, format, oldLayout, newLayout)
Barrier(oldLayout, newLayout) ==
    [oldLayout |-> oldLayout, newLayout |-> newLayout, dst |-> texture.textureImage]

\* createTextureImage: transitionImageLayout UNDEFINED -> TRANSFER_DST_OPTIMAL
TexTransitionToTransferDst ==
    SubmitSingleTime("toTransferDst", Barrier("UNDEFINED", "TRANSFER_DST"))

\* createTextureImage: copyBufferToImage(stagingBuffer, textureImage, ...)
TexCopyBufferToImage ==
    SubmitSingleTime("copy", [src |-> staging, dst |-> texture.textureImage, size |-> 0])

\* createTextureImage: transitionImageLayout TRANSFER_DST_OPTIMAL ->
\* SHADER_READ_ONLY_OPTIMAL
TexTransitionToShaderRead ==
    SubmitSingleTime("toShaderReadOnly", Barrier("TRANSFER_DST", "SHADER_READ_ONLY"))

\* The statement of createTextureImage after each single-time command.
TexAfter(step) ==
    CASE step = "toTransferDst"    -> "copy"
      [] step = "copy"             -> "toShaderReadOnly"
      [] step = "toShaderReadOnly" -> "destroyStaging"

\* submitSingleTimeCommandBuffer: vkQueueWaitIdle returns when the queue has
\* nothing left to run; the command buffer is freed.
TexWaitIdle ==
    /\ upc[1] = "createTextureImage" /\ upc[3] = 1
    /\ copyQ = NullHandle
    /\ upc' = At("createTextureImage", TexAfter(upc[2]))
    /\ UNCHANGED <<bufferManager, bufferData, staging, copyQ, uplog, devVars, loopVars>>
    /\ UNCHANGED <<texture, descriptorSets, poolSets, tpc, mlog, ncalls, samplerManager, call>>

\* The queue executes vkCmdCopyBufferToImage.
GpuCopyBufferToImage ==
    /\ copyQ # NullHandle /\ "src" \in DOMAIN copyQ /\ copyQ.dst[1] = "textureImage"
    /\ texture' = [texture EXCEPT !.pixels = bufferData[copyQ.src]]
    /\ uplog' = Append(uplog, <<"gpu", "copy", texture.layout>>)
    /\ copyQ' = NullHandle
    /\ UNCHANGED <<bufferManager, bufferData, staging, upc, devVars, loopVars>>
    /\ UNCHANGED <<descriptorSets, poolSets, tpc, mlog, ncalls, samplerManager, call>>

\* The layouts an image may be in after a barrier oldLayout -> newLayout has
\* executed on an image in layout `layout`.  A barrier whose oldLayout is
\* neither UNDEFINED nor the layout of the image is invalid usage.
BarrierOutcomes(layout, oldLayout, newLayout) ==
    IF oldLayout \in {"UNDEFINED", layout} THEN {newLayout} ELSE {layout, newLayout}

\* The queue executes vkCmdPipelineBarrier.
GpuPipelineBarrier ==
    /\ copyQ # NullHandle /\ "newLayout" \in DOMAIN copyQ
    /\ \E l \in BarrierOutcomes(texture.layout, copyQ.oldLayout, copyQ.newLayout) :
          texture' = [texture EXCEPT !.layout = l]
    /\ uplog' = Append(uplog, <<"gpu", copyQ.newLayout, texture.layout>>)
    /\ copyQ' = NullHandle
    /\ UNCHANGED <<bufferManager, bufferData, staging, upc, devVars, loopVars>>
    /\ UNCHANGED <<descriptorSets, poolSets, tpc, mlog, ncalls, samplerManager, call>>

\* createTextureImage: vmaDestroyBuffer of the staging buffer and return;
\* the constructor creates the view and looks the sampler up.
TexFinish ==
    /\ upc = At("createTextureImage", "destroyStaging")
    /\ bufferData' = WithoutBuffers(bufferData, {staging})
    /\ staging' = NullHandle
    /\ texture' = [texture EXCEPT !.textureImageView = NewTextureView(texture.textureImage),
                                  !.textureSampler = Sampler]
    /\ alive' = (alive \ {staging}) \cup {NewTextureView(texture.textureImage)}
    /\ mlog' = Append(mlog, <<"create", NewTextureView(texture.textureImage)>>)
    /\ Returns("createTextureImage", TRUE, uplog)
    /\ UNCHANGED <<bufferManager, copyQ, attach, loopVars>>
    /\ UNCHANGED <<descriptorSets, poolSets, tpc, ncalls, samplerManager, call>>

NextUpload ==
    \/ TexCreateStaging
    \/ TexMapStaging
    \/ TexCreateImage
    \/ TexTransitionToTransferDst
    \/ TexCopyBufferToImage
    \/ TexTransitionToShaderRead
    \/ TexWaitIdle
    \/ GpuCopyBufferToImage
    \/ GpuPipelineBarrier
    \/ TexFinish
    \/ \E op \in BufferOps : CreateStaging(op)
    \/ \E op \in BufferOps : MapStaging(op)
    \/ \E op \in BufferOps : CreateDestination(op)
    \/ \E op \in BufferOps : CopyBuffer(op)
    \/ GpuCopyBuffer
    \/ \E op \in BufferOps : CopyWaitIdle(op)
    \/ \E op \in BufferOps : FinishUpload(op)
    \/ CreateUniformBuffer
    \/ DestroyBufferManager

SpecUpload == InitUpload /\ [][NextUpload]_vars

StagingAlive == {h \in alive : h[1] = "stagingBuffer"}
UploadRunning(op) == upc[1] = op
Failed(ops) == \E i \in DOMAIN uplog : uplog[i][1] = "failed" /\ uplog[i][2] \in ops

\* C15: in every upload (createVertexBuffer, createIndexBuffer,
\* createTextureImage) the staging buffer outlives the copy the queue still
\* has to run, and once the upload has returned or thrown no staging buffer
\* it created is alive.
C15_StagingTransient ==
    /\ (copyQ # NullHandle /\ "src" \in DOMAIN copyQ) => copyQ.src \in alive
    /\ \A h \in StagingAlive :
          \E op \in BufferOps \cup {"createTextureImage"} :
             h = StagingBuffer(op) /\ UploadRunning(op)

\* C16: when a buffer creation, a mapping or a staging copy failed while the
\* BufferManager was constructed, its constructor does not return normally.
C16_FailureFailsConstruction ==
    Failed(BufferOps \cup {"createUniformBuffers"}) => upc # Constructed

\* C20: once createVertexBuffer / createIndexBuffer has returned true, the
\* destination buffer holds exactly the bytes of the payload, in the
\* payload's size.
C20_UploadRoundTrip ==
    \A op \in BufferOps :
       <<"return", op, TRUE>> \in Range(uplog)
          => /\ DestinationOf(op) \in DOMAIN bufferData
             /\ bufferData[DestinationOf(op)] = SourceOf(op)

\* What the queue has executed for the texture upload, in order: the command
\* and the layout the image was in when the command ran.
IsGpuEntry(e) == e[1] = "gpu"
GpuExecuted == SelectSeq(uplog, IsGpuEntry)

\* The commands of one texture upload with the layout each one finds.
UploadSequence ==
    << <<"gpu", "TRANSFER_DST", "UNDEFINED">>,
       <<"gpu", "copy", "TRANSFER_DST">>,
       <<"gpu", "SHADER_READ_ONLY", "TRANSFER_DST">> >>

\* C29 (as claimed): the texture image goes from UNDEFINED to TRANSFER_DST,
\* receives the copy while in TRANSFER_DST, and goes to SHADER_READ_ONLY;
\* each of the three commands has been executed by the queue before
\* createTextureImage starts the next one, and once createTextureImage has
\* returned the image is in SHADER_READ_ONLY.
C29_LayoutSequence ==
    /\ Len(GpuExecuted) <= 3
    /\ GpuExecuted = SubSeq(UploadSequence, 1, Len(GpuExecuted))
    /\ upc = At("createTextureImage", "toTransferDst") => Len(GpuExecuted) = 0
    /\ upc = At("createTextureImage", "copy") => Len(GpuExecuted) = 1
    /\ upc = At("createTextureImage", "toShaderReadOnly") => Len(GpuExecuted) = 2
    /\ upc = At("createTextureImage", "destroyStaging") => Len(GpuExecuted) = 3
    /\ <<"return", "createTextureImage", TRUE>> \in Range(uplog)
          => texture.layout = "SHADER_READ_ONLY"

\* The buffers BufferManager has destroyed, in order.
IsDestroy(e) == e[1] = "destroy" /\ e[2][1] \notin TextureKinds
BuffersDestroyed ==
    LET d == SelectSeq(mlog, IsDestroy) IN [j \in 1 .. Len(d) |-> d[j][2]]

BufferKinds == {"vertexBuffer", "indexBuffer", "uniformBuffer"}

\* C35 (as claimed): whatever steps of createVertexBuffer, createIndexBuffer
\* and createUniformBuffers fail, the failure paths and the destructor
\* together destroy no buffer twice, destroy only buffers that were created,
\* and leave no created buffer alive.
C35_BuffersDestroyedOnce ==
    /\ \A j, k \in DOMAIN BuffersDestroyed :
          BuffersDestroyed[j] = BuffersDestroyed[k] => j = k
    /\ \A j \in DOMAIN BuffersDestroyed : BuffersDestroyed[j][1] \in BufferKinds
    /\ upc = Destroyed => {h \in alive : h[1] \in BufferKinds} = {}

\* C19: every sampler createSampler has made stays alive until the
\* SamplerManager is destroyed, and after that none is alive and none has
\* been destroyed twice.
C19_SamplersDestroyedAtTeardown ==
    /\ ~samplerManager.destroyed => SamplersCreated \subseteq alive
    /\ samplerManager.destroyed => SamplersCreated \cap alive = {} /\ DestroyedOnce

(***************************************************************************)
(* Selection functions and constructors of devices.cpp and of              *)
(* VulkanInstance, called by a client on arguments of its choice.          *)
(***************************************************************************)
ListsOf(S, lo) == UNION {[1 .. n -> S] : n \in lo .. MaxLen}

\* A client's call of fn on args has returned (or thrown) result.
Called(fn, args, result) ==
    /\ call' = [fn |-> fn, args |-> args, result |-> result]
    /\ UNCHANGED <<loopVars, devVars, upVars, samplerManager>>
    /\ UNCHANGED <<texture, descriptorSets, poolSets, tpc, mlog, ncalls>>

SurfaceFormats ==
    [format : {"B8G8R8A8_SRGB", "B8G8R8A8_UNORM"},
     colorSpace : {"SRGB_NONLINEAR", "EXTENDED_SRGB_LINEAR"}]

\* Fault seed: the first available format is taken whatever the list offers.
chooseSwapSurfaceFormat_First(availableFormats) == availableFormats[1]

\* SwapChain::chooseSwapSurfaceFormat: the loop returns the first entry that
\* is B8G8R8A8_SRGB with SRGB_NONLINEAR; after the loop availableFormats[0].
chooseSwapSurfaceFormat(availableFormats) ==
    LET RECURSIVE loop(_)
        loop(i) ==
          IF i > Len(availableFormats) THEN availableFormats[1]
          ELSE IF /\ availableFormats[i].format = "B8G8R8A8_SRGB"
                  /\ availableFormats[i].colorSpace = "SRGB_NONLINEAR"
               THEN availableFormats[i]
               ELSE loop(i + 1)
    IN  loop(1)

\* The lists are those querySwapChainSupport hands over for a suitable
\* device: isDeviceSuitable has checked that formats is not empty.
Call_chooseSwapSurfaceFormat ==
    /\ pc = "client" /\ call = NoCall
    /\ \E formats \in ListsOf(SurfaceFormats, 1) :
         Called("chooseSwapSurfaceFormat", formats, chooseSwapSurfaceFormat(formats))

PresentModes == {"IMMEDIATE", "MAILBOX", "FIFO", "FIFO_RELAXED"}

\* Fault seed: the guaranteed mode is returned without looking at the list.
chooseSwapPresentMode_Fifo(availablePresentModes) == "FIFO"

\* SwapChain::chooseSwapPresentMode: the loop returns the entry that is
\* MAILBOX; after the loop VK_PRESENT_MODE_FIFO_KHR.
chooseSwapPresentMode(availablePresentModes) ==
    LET RECURSIVE loop(_)
        loop(i) ==
          IF i > Len(availablePresentModes) THEN "FIFO"
          ELSE IF availablePresentModes[i] = "MAILBOX"
               THEN availablePresentModes[i]
               ELSE loop(i + 1)
    IN  loop(1)

Call_chooseSwapPresentMode ==
    /\ pc = "client" /\ call = NoCall
    /\ \E modes \in ListsOf(PresentModes, 0) :
         Called("chooseSwapPresentMode", modes, chooseSwapPresentMode(modes))

\* std::numeric_limits<uint32_t>::max(), and static_cast<uint32_t>(int).
UINT32_MAX == 2 ^ UintBits - 1
ToUint32(n) == n % (2 ^ UintBits)

\* Fault seed: the upper limit is not applied.
Clamp_NoUpper(v, lo, hi) == IF v < lo THEN lo ELSE v

\* std::clamp(v, lo, hi)
Clamp(v, lo, hi) == IF v < lo THEN lo ELSE IF hi < v THEN hi ELSE v

Extent(w, h) == [width |-> w, height |-> h]

\* Surface capabilities: the current extent is a size or the pair of
\* sentinels, and minImageExtent <= maxImageExtent in each component.
Capabilities ==
    {[currentExtent |-> c, minImageExtent |-> Extent(lw, lh),
      maxImageExtent |-> Extent(hw, hh)] :
        c \in {Extent(2, 1), Extent(UINT32_MAX, UINT32_MAX)},
        lw \in 1 .. 2, hw \in 2 .. 3, lh \in 1 .. 2, hh \in 2 .. 3}

\* SwapChain::chooseSwapExtent, with the size glfwGetFramebufferSize reports.
chooseSwapExtent(capabilities, size) ==
    IF capabilities.currentExtent.width # UINT32_MAX
    THEN capabilities.currentExtent
    ELSE Extent(Clamp(ToUint32(size.width), capabilities.minImageExtent.width,
                      capabilities.maxImageExtent.width),
                Clamp(ToUint32(size.height), capabilities.minImageExtent.height,
                      capabilities.maxImageExtent.height))

Call_chooseSwapExtent ==
    /\ pc = "client" /\ call = NoCall
    /\ \E capabilities \in Capabilities, w \in 0 .. 4, h \in 0 .. 4 :
         Called("chooseSwapExtent", <<capabilities, Extent(w, h)>>,
                chooseSwapExtent(capabilities, Extent(w, h)))

\* What vkEnumeratePhysicalDevices lists about a device: its type, its
\* maxImageDimension2D, and what isDeviceSuitable says about it.
PhysicalDevices ==
    [discrete : BOOLEAN, maxImageDimension2D : {4096, 8192}, suitable : BOOLEAN]

\* VulkanPhysicalDevice::rateDeviceSuitability
rateDeviceSuitability(device) ==
    (IF device.discrete THEN 1000 ELSE 0) + device.maxImageDimension2D

\* Fault seed: the first suitable device is kept.
VulkanPhysicalDevice_FirstSuitable(devices) ==
    LET ok == {i \in DOMAIN devices : devices[i].suitable}
    IN  IF ok = {} THEN [threw |-> TRUE, physicalDevice |-> 0]
        ELSE [threw |-> FALSE, physicalDevice |-> CHOOSE i \in ok : \A j \in ok : i <= j]

\* VulkanPhysicalDevice::VulkanPhysicalDevice: throws for deviceCount == 0;
\* the loop keeps in physicalDevice the device (here its index, 0 for
\* VK_NULL_HANDLE) of a score above bestScore that is suitable; throws when
\* physicalDevice is still VK_NULL_HANDLE.
VulkanPhysicalDevice(devices) ==
    LET RECURSIVE loop(_, _, _)
        loop(i, bestScore, physicalDevice) ==
          IF i > Len(devices) THEN physicalDevice
          ELSE IF rateDeviceSuitability(devices[i]) > bestScore /\ devices[i].suitable
               THEN loop(i + 1, rateDeviceSuitability(devices[i]), i)
               ELSE loop(i + 1, bestScore, physicalDevice)
        chosen == loop(1, 0 - 1, 0)
    IN  IF Len(devices) = 0 \/ chosen = 0
        THEN [threw |-> TRUE, physicalDevice |-> 0]
        ELSE [threw |-> FALSE, physicalDevice |-> chosen]

Call_VulkanPhysicalDevice ==
    /\ pc = "client" /\ call = NoCall
    /\ \E devices \in ListsOf(PhysicalDevices, 0) :
         Called("VulkanPhysicalDevice", devices, VulkanPhysicalDevice(devices))

\* What the calls made by VulkanInstance's constructor answer:
\* checkValidationLayerSupport (asked when the layers are enabled),
\* vkCreateInstance, setupDebugMessenger and glfwCreateWindowSurface.
InstanceOutcomes ==
    [layersEnabled : BOOLEAN, layersSupported : BOOLEAN, vkCreateInstance : BOOLEAN,
     setupDebugMessenger : BOOLEAN, glfwCreateWindowSurface : BOOLEAN]

\* Fault seed: the result of glfwCreateWindowSurface is not looked at.
VulkanInstance_SurfaceUnchecked(o) ==
    IF (o.layersEnabled /\ ~o.layersSupported) \/ ~o.vkCreateInstance
    THEN [threw |-> TRUE, instance |-> NullHandle, surface |-> NullHandle]
    ELSE IF o.layersEnabled /\ ~o.setupDebugMessenger
    THEN [threw |-> TRUE, instance |-> Instance, surface |-> NullHandle]
    ELSE [threw |-> FALSE, instance |-> Instance,
          surface |-> IF o.glfwCreateWindowSurface THEN Surface ELSE NullHandle]

\* VulkanInstance::VulkanInstance: createInstance(); createSurface(); each
\* throws std::runtime_error on a failed call; the members start as
\* VK_NULL_HANDLE.
VulkanInstance(o) ==
    IF (o.layersEnabled /\ ~o.layersSupported) \/ ~o.vkCreateInstance
    THEN [threw |-> TRUE, instance |-> NullHandle, surface |-> NullHandle]
    ELSE IF o.layersEnabled /\ ~o.setupDebugMessenger
    THEN [threw |-> TRUE, instance |-> Instance, surface |-> NullHandle]
    ELSE IF ~o.glfwCreateWindowSurface
    THEN [threw |-> TRUE, instance |-> Instance, surface |-> NullHandle]
    ELSE [threw |-> FALSE, instance |-> Instance, surface |-> Surface]

Call_VulkanInstance ==
    /\ pc = "client" /\ call = NoCall
    /\ \E o \in InstanceOutcomes : Called("VulkanInstance", o, VulkanInstance(o))

\* The elements a handle vector of the accessors may hold, and what a read
\* past its end may find.
Elements == {H("element", 0, 0), H("element", 0, 1), NullHandle}
Garbage == H("garbage", 0, 0)
Indices == 0 .. MaxLen

\* v[index] of a std::vector: the element, or, for an index that is not below
\* size(), whatever the memory behind the vector holds.
Subscript(v, index) ==
    IF index < Len(v) THEN {v[index + 1]} ELSE {Garbage, NullHandle}

Value(h) == <<"value", h>>
Thrown == <<"throw", NullHandle>>
Crash == <<"crash", NullHandle>>

\* CommandBufferManager::getCommandBuffer, getImageAvailableSemaphore,
\* getRenderFinishedSemaphore, getInFlightFence: the element is read without
\* a bounds check and the function throws when it is VK_NULL_HANDLE.
getCommandBuffer(v, frameIndex) ==
    {IF h = NullHandle THEN Thrown ELSE Value(h) : h \in Subscript(v, frameIndex)}
        \cup (IF frameIndex < Len(v) THEN {} ELSE {Crash})

CommandBufferGetters ==
    {"getCommandBuffer", "getImageAvailableSemaphore", "getRenderFinishedSemaphore",
     "getInFlightFence"}

Call_getCommandBuffer ==
    /\ pc = "client" /\ call = NoCall
    /\ \E fn \in CommandBufferGetters, v \in ListsOf(Elements, 0), frameIndex \in Indices :
          \E r \in getCommandBuffer(v, frameIndex) : Called(fn, <<v, frameIndex>>, r)

\* DescriptorManager::getDescriptorSet: bounds check, null check, element.
getDescriptorSet(v, frameIndex) ==
    IF frameIndex >= Len(v) THEN {Thrown}
    ELSE IF v[frameIndex + 1] = NullHandle THEN {Thrown}
    ELSE {Value(v[frameIndex + 1])}

Call_getDescriptorSet ==
    /\ pc = "client" /\ call = NoCall
    /\ \E v \in ListsOf(Elements, 0), frameIndex \in Indices :
          \E r \in getDescriptorSet(v, frameIndex) :
             Called("getDescriptorSet", <<v, frameIndex>>, r)

\* GraphicsPipeline::getFrameBuffer: the two std::runtime_error objects are
\* constructed and discarded, nothing is thrown, and framebuffers[frameIndex]
\* is returned.
getFrameBuffer(v, frameIndex) ==
    {Value(h) : h \in Subscript(v, frameIndex)}
        \cup (IF frameIndex < Len(v) THEN {} ELSE {Crash})

Call_getFrameBuffer ==
    /\ pc = "client" /\ call = NoCall
    /\ \E v \in ListsOf(Elements, 0), frameIndex \in Indices :
          \E r \in getFrameBuffer(v, frameIndex) :
             Called("getFrameBuffer", <<v, frameIndex>>, r)

\* Contents of a uniform region and of the UniformBufferObject passed in.
UboValues == {1, 2}
Regions == [1 .. MAX_FRAMES_IN_FLIGHT -> {0} \cup UboValues]
Mappings == [1 .. MAX_FRAMES_IN_FLIGHT -> BOOLEAN]

\* Fault seed: the mapped pointer is not compared with nullptr.
updateUniformBuffer_NoNullCheck(mapped, regions, frame, ubo) ==
    IF frame >= MAX_FRAMES_IN_FLIGHT
    THEN [threw |-> TRUE, regions |-> regions]
    ELSE [threw |-> FALSE, regions |-> [regions EXCEPT ![frame + 1] = ubo]]

\* BufferManager::updateUniformBuffer(currentFrame, ubo): `mapped` tells which
\* uniformBuffersMapped[i] are not nullptr, `regions` what the regions hold.
updateUniformBuffer(mapped, regions, frame, ubo) ==
    IF frame >= MAX_FRAMES_IN_FLIGHT
    THEN [threw |-> TRUE, regions |-> regions]
    ELSE IF ~mapped[frame + 1]
    THEN [threw |-> TRUE, regions |-> regions]
    ELSE [threw |-> FALSE, regions |-> [regions EXCEPT ![frame + 1] = ubo]]

Call_updateUniformBuffer ==
    /\ pc = "client" /\ call = NoCall
    /\ \E mapped \in Mappings, regions \in Regions, frame \in Indices, ubo \in UboValues :
          Called("updateUniformBuffer", <<mapped, regions, frame, ubo>>,
                 updateUniformBuffer(mapped, regions, frame, ubo))

\* VkSurfaceCapabilitiesKHR as far as the image count goes: at least one
\* image, and a maximum that is 0 (no limit) or not below the minimum.
ImageCountCapabilities ==
    {c \in [minImageCount : 1 .. UINT32_MAX, maxImageCount : 0 .. UINT32_MAX] :
        c.maxImageCount = 0 \/ c.maxImageCount >= c.minImageCount}

\* SwapChain::createSwapChain: uint32_t imageCount = minImageCount + 1, cut
\* down to maxImageCount when that is not 0.
imageCount(capabilities) ==
    LET count == ToUint32(capabilities.minImageCount + 1)
    IN  IF capabilities.maxImageCount > 0 /\ count > capabilities.maxImageCount
        THEN capabilities.maxImageCount
        ELSE count

Call_createSwapChain ==
    /\ pc = "client" /\ call = NoCall
    /\ \E capabilities \in ImageCountCapabilities :
          Called("createSwapChain", capabilities, imageCount(capabilities))

NextCalls ==
    \/ Call_chooseSwapSurfaceFormat
    \/ Call_chooseSwapPresentMode
    \/ Call_chooseSwapExtent
    \/ Call_VulkanPhysicalDevice
    \/ Call_VulkanInstance
    \/ Call_getCommandBuffer
    \/ Call_getDescriptorSet
    \/ Call_getFrameBuffer
    \/ Call_updateUniformBuffer
    \/ Call_createSwapChain

SpecCalls == InitClient /\ [][NextCalls]_vars

Preferred(f) == f.format = "B8G8R8A8_SRGB" /\ f.colorSpace = "SRGB_NONLINEAR"

\* C21: chooseSwapSurfaceFormat on a non-empty list returns the first entry
\* that is B8G8R8A8_SRGB with the SRGB nonlinear colour space, and the first
\* element of the list when no entry is.
C21_FormatSelection ==
    call.fn = "chooseSwapSurfaceFormat" =>
       LET f == call.args
           hits == {i \in DOMAIN f : Preferred(f[i])}
       IN  /\ hits # {} => \E i \in hits : (\A j \in hits : i <= j) /\ call.result = f[i]
           /\ hits = {} => call.result = f[1]

C21_Witness ==
    /\ call.fn = "chooseSwapSurfaceFormat"
    /\ Len(call.args) = 3 /\ ~Preferred(call.args[1]) /\ Preferred(call.args[3])
    /\ Preferred(call.result)

\* C22: chooseSwapPresentMode returns MAILBOX when the list contains MAILBOX
\* and FIFO otherwise, the empty list included.
C22_PresentModeSelection ==
    call.fn = "chooseSwapPresentMode" =>
       call.result = IF "MAILBOX" \in Range(call.args) THEN "MAILBOX" ELSE "FIFO"

C22_Witness ==
    /\ call.fn = "chooseSwapPresentMode"
    /\ Len(call.args) = 2 /\ call.args[1] = "IMMEDIATE" /\ call.args[2] = "MAILBOX"
    /\ call.result = "MAILBOX"

Within(v, lo, hi, r) ==
    /\ lo <= r /\ r <= hi
    /\ (lo <= v /\ v <= hi) => r = v
    /\ v < lo => r = lo
    /\ v > hi => r = hi

\* C23: chooseSwapExtent returns a defined current extent unchanged; for the
\* undefined sentinel it returns the window's size with each component
\* clamped to [minImageExtent, maxImageExtent].
C23_ExtentClamp ==
    call.fn = "chooseSwapExtent" =>
       LET c == call.args[1]
           size == call.args[2]
       IN  IF c.currentExtent # Extent(UINT32_MAX, UINT32_MAX)
           THEN call.result = c.currentExtent
           ELSE /\ Within(size.width, c.minImageExtent.width, c.maxImageExtent.width,
                          call.result.width)
                /\ Within(size.height, c.minImageExtent.height, c.maxImageExtent.height,
                          call.result.height)

C23_Witness ==
    /\ call.fn = "chooseSwapExtent"
    /\ call.args[1].currentExtent = Extent(UINT32_MAX, UINT32_MAX)
    /\ call.args[2].width > call.args[1].maxImageExtent.width
    /\ call.args[2].height < call.args[1].minImageExtent.height
    /\ call.result = Extent(call.args[1].maxImageExtent.width,
                            call.args[1].minImageExtent.height)

\* C24: VulkanPhysicalDevice's constructor throws when no device is listed or
\* none is suitable; otherwise it selects a suitable device whose score no
\* suitable device exceeds, and getDevice() is that non-null handle.
C24_BestSuitableDevice ==
    call.fn = "VulkanPhysicalDevice" =>
       LET d == call.args
           ok == {i \in DOMAIN d : d[i].suitable}
           score(i) == (IF d[i].discrete THEN 1000 ELSE 0) + d[i].maxImageDimension2D
       IN  IF ok = {}
           THEN call.result.threw
           ELSE /\ ~call.result.threw
                /\ call.result.physicalDevice \in ok
                /\ \A j \in ok : score(j) <= score(call.result.physicalDevice)

C24_Witness ==
    /\ call.fn = "VulkanPhysicalDevice"
    /\ Len(call.args) = 3
    /\ \A i \in 1 .. 3 : call.args[i].suitable
    /\ ~call.args[1].discrete /\ call.args[2].discrete /\ ~call.args[3].discrete
    /\ call.args[1].maxImageDimension2D = call.args[2].maxImageDimension2D
    /\ call.result.physicalDevice = 2

\* C25: VulkanInstance's constructor throws when vkCreateInstance fails and
\* when glfwCreateWindowSurface fails; when it returns, the instance and the
\* surface are non-null.
C25_InstanceConstruction ==
    call.fn = "VulkanInstance" =>
       /\ (~call.args.vkCreateInstance \/ ~call.args.glfwCreateWindowSurface)
             => call.result.threw
       /\ ~call.result.threw =>
             call.result.instance # NullHandle /\ call.result.surface # NullHandle

C25_Witness ==
    /\ call.fn = "VulkanInstance"
    /\ call.args.vkCreateInstance /\ ~call.args.layersEnabled
    /\ ~call.args.glfwCreateWindowSurface
    /\ call.result.threw /\ call.result.instance = Instance

IndexAccessors == CommandBufferGetters \cup {"getDescriptorSet", "getFrameBuffer"}

\* C30 (as claimed): an accessor called with an index reports a fatal error
\* when the index is not a valid index of its collection (an empty collection
\* has none) or the element there is a null handle, returns the element at
\* the index otherwise, and reads nothing outside the collection.
C30_AccessorsChecked ==
    call.fn \in IndexAccessors =>
        LET v == call.args[1]
            index == call.args[2]
        IN  IF index + 1 \in DOMAIN v /\ v[index + 1] # NullHandle
            THEN call.result = Value(v[index + 1])
            ELSE call.result = Thrown


\* C31: updateUniformBuffer(i, ubo) with i >= MAX_FRAMES_IN_FLIGHT, or with
\* region i not mapped, throws and leaves every region as it was; with a
\* mapped region i below MAX_FRAMES_IN_FLIGHT it returns, region i holds ubo
\* and every other region is as it was.
C31_UniformUpdate ==
    call.fn = "updateUniformBuffer" =>
        LET mapped == call.args[1]
            regions == call.args[2]
            i == call.args[3]
            ubo == call.args[4]
            valid == i < MAX_FRAMES_IN_FLIGHT /\ mapped[i + 1]
        IN  /\ call.result.threw = ~valid
            /\ ~valid => call.result.regions = regions
            /\ valid => \A j \in 1 .. MAX_FRAMES_IN_FLIGHT :
                  call.result.regions[j] = IF j = i + 1 THEN ubo ELSE regions[j]

\* C31 cases: a call on an unmapped region that threw, and a call that
\* overwrote region 1 with a new value.
C31_Witness ==
    /\ call.fn = "updateUniformBuffer"
    /\ call.args[3] = 1 /\ ~call.args[1][2] /\ call.result.threw

C31_WitnessWrite ==
    /\ call.fn = "updateUniformBuffer"
    /\ call.args[3] = 1 /\ call.args[1][2] /\ call.args[2][2] = 0
    /\ call.result.regions[2] = 2 /\ call.result.regions[1] = call.args[2][1]

====
